---- MODULE Spec2Model ----
(***************************************************************************)
(* A model of the gameplanner developer scripts                            *)
(*   src/local-data/populate-dev-data.py  (DataPopulator, the seed)        *)
(*   src/local-data/delete-all.py         (DataCleaner, the cleanup)       *)
(* run one after the other against the REST API of the booking server.     *)
(* The server and its datastore are external: they are modelled as three   *)
(* tables (venues, rooms, events) that a successful POST appends to and a  *)
(* successful DELETE removes from, and as a source of responses: every     *)
(* request is answered by a 2xx response, by an error status or by a       *)
(* transport exception.  A request that fails leaves the tables unchanged. *)
(* Each action is one request of a script together with the statements     *)
(* that follow it up to the next request or loop iteration.                *)
(***************************************************************************)
EXTENDS Integers, Sequences, FiniteSets, TLC

(***************************************************************************)
(* Bounds of the model.                                                    *)
(***************************************************************************)
\* script runs in one behaviour
MaxRuns == 2
\* requests that may fail in one behaviour
MaxFailures == 1
\* venues the store holds before the first run
MaxInitVenues == 2
\* rooms, and as many events, each of those venues holds before the first run
MaxInitDeps == 1
\* requests sent to the web application
MaxRequests == 3
\* the years today's date is drawn from
MinYear == 2024
MaxYear == 2025
\* the tables DataLister scans: pages of a scan, items of a table, distinct
\* createdAt values
MaxPages == 3
MaxUserPages == 2
MaxItems == 2
MaxStamp == 2

(***************************************************************************)
(* Values.                                                                 *)
(***************************************************************************)
\* Python's None for an id (Optional[str]); an id the server assigns is >= 1
NoId == 0
NoExc == "none"
\* no date is computed yet
NoDate == [year |-> 0, month |-> 0, day |-> 0]

\* the prompt has not been answered
NoAnswer == "<not asked>"
MONKEY_PUZZLE_VENUE == "Monkey Puzzle (Farnborough)"
DOUBLE_TREE_VENUE == "DoubleTree by Hilton Southampton"
\* a venue some other user of the booking system created
OTHER_VENUE == "Other Venue"

\* populate_data: venues_data, by name
venues_data == <<MONKEY_PUZZLE_VENUE, DOUBLE_TREE_VENUE>>

\* populate_data: rooms_data, a dict in insertion order
rooms_data ==
  << [venueName |-> MONKEY_PUZZLE_VENUE,
      rooms |-> <<"Main Area", "Back Room">>],
     [venueName |-> DOUBLE_TREE_VENUE,
      rooms |-> <<"Chilworth Suite", "Garden Suite", "Adams Suite",
                  "Austen Suite", "Hardy Suite", "The Boardroom",
                  "Frome Suite">>] >>

\* populate_data: events_data
events_data ==
  << [name |-> "Board Game Championship - Monkey Puzzle",
      venueName |-> MONKEY_PUZZLE_VENUE],
     [name |-> "Board Game Night - Monkey Puzzle",
      venueName |-> MONKEY_PUZZLE_VENUE],
     [name |-> "Clocktower (Beginner Friendly)",
      venueName |-> MONKEY_PUZZLE_VENUE],
     [name |-> "Clocktower (Intermediate+)",
      venueName |-> MONKEY_PUZZLE_VENUE],
     [name |-> "Clockshire '25", venueName |-> DOUBLE_TREE_VENUE],
     [name |-> "Clockshire '26", venueName |-> DOUBLE_TREE_VENUE] >>

VARIABLES
  \* the server's store, each table in listing order
  venues, rooms, events, nextId,
  \* the environment: failed requests so far
  failures,
  \* the running script
  script, pc, exit_status, runs, log, history, uncaught,
  \* locals of DataCleaner
  phase, entities, idx, deleted_count, total_deleted, returned, message,
  \* locals of DataPopulator (entities and idx are shared with its loops)
  session_token, venue_index, existing_venue, created_venues, created_rooms,
  created_events, room_venue_index, room_index, event_index, assign_index,
  reported,
  \* the operator's answer to the prompt of delete-all.py (response) and of
  \* delete-specific-events.py (confirm)
  response, confirm,
  \* locals of EventDeleter.delete_events
  successful, failed,
  \* the web application: the state of its process, the routes of its URL
  \* map, the exception that ended its start, and the requests answered
  app, url_map, app_error, served,
  \* populate_data's dynamic dates
  today, next_month, first_tuesday, future_next_month_2nd_tuesday,
  future_next_month_4th_tuesday,
  \* the table DataLister reports on and the users table, each as the pages
  \* its scan comes in
  pages, user_pages,
  \* DataLister: the method it runs and its position, the table it scans, the
  \* last response of the scan, the list the scan extends, the scan calls so
  \* far, and the locals venues/events (items), users and what it prints
  lister_pc, scanning, scan_response, fetched, scan_log, items, users, report

storeVars == <<venues, rooms, events, nextId>>
procVars == <<script, pc, exit_status, runs, log, history, uncaught>>
cleanerVars == <<phase, deleted_count, total_deleted, returned, message>>
loopVars == <<entities, idx>>
populatorVars ==
  <<session_token, venue_index, existing_venue, created_venues, created_rooms,
    created_events, room_venue_index, room_index, event_index, assign_index,
    reported>>
promptVars == <<response, confirm>>
deleterVars == <<successful, failed>>
toolVars == <<promptVars, deleterVars>>
appVars == <<app, url_map, app_error, served>>
\* what no script touches
dateVars ==
  <<today, next_month, first_tuesday, future_next_month_2nd_tuesday,
    future_next_month_4th_tuesday>>
tableVars == <<pages, user_pages>>
listerVars ==
  <<lister_pc, scanning, scan_response, fetched, scan_log, items, users, report>>
otherVars == <<appVars, dateVars, tableVars, listerVars>>
\* what the web application does not touch
scriptVars ==
  <<storeVars, failures, procVars, cleanerVars, loopVars, populatorVars, toolVars>>
vars == <<scriptVars, otherVars>>

(***************************************************************************)
(* Sequences.                                                              *)
(***************************************************************************)
Range(s) == {s[i] : i \in DOMAIN s}

RECURSIVE SumSeq(_)
SumSeq(s) == IF s = <<>> THEN 0 ELSE Head(s) + SumSeq(Tail(s))

\* the sequence in which i \in 1..n occurs cnt[i] times, in order of i
RECURSIVE Owners(_, _, _)
Owners(cnt, i, n) ==
  IF i > n THEN <<>>
  ELSE [k \in 1..cnt[i] |-> i] \o Owners(cnt, i + 1, n)

\* the first index of s from `from` on whose element satisfies P, 0 if none:
\* where a `for` loop whose body is guarded by `if P(x)` next does something
NextMatch(s, from, P(_)) ==
  LET hits == {i \in DOMAIN s : i >= from /\ P(s[i])}
  IN IF hits = {} THEN 0 ELSE CHOOSE i \in hits : \A j \in hits : i <= j

(***************************************************************************)
(* HTTP: a response is a transport exception raised by the session call,   *)
(* or a status with a body that carries the "data" the caller reads or     *)
(* does not.                                                               *)
(***************************************************************************)
OkResponse == [exc |-> NoExc, status |-> 200, data |-> TRUE]

\* a narrower except clause: the exceptions of the connection only
ConnectionErrors == {"ConnectionError", "Timeout"}

\* the classes `except requests.RequestException` catches
RequestException == {"RequestException", "ConnectionError", "Timeout", "HTTPError"}

\* an error status, and an exception of the transport
FailedResponses ==
  { [exc |-> NoExc, status |-> 500, data |-> FALSE],
    [exc |-> "ConnectionError", status |-> 0, data |-> FALSE] }

\* a 2xx answer whose body lacks the id or the token the caller reads
EmptyResponses == { [exc |-> NoExc, status |-> 200, data |-> FALSE] }

\* the answers the environment may give to one request: those the caller
\* takes as a success, and, while the bound allows, those it takes as a failure
Responses(accepted, failing) ==
  accepted \cup (IF failures < MaxFailures THEN failing ELSE {})

Succeeded(r) == r.exc = NoExc /\ r.status < 400 /\ r.data

\* response.raise_for_status()
raise_for_status(r) == IF r.status >= 400 THEN "HTTPError" ELSE NoExc

\* the exception the body of a try block raises on response r, when the
\* body calls raise_for_status after the request
TryRaises(r) == IF r.exc # NoExc THEN r.exc ELSE raise_for_status(r)

\* a log entry: one request with the answer it got (status 0 with the
\* exception for a transport failure), or one pause.  A POST carries what
\* its body names: the entity's name, its venueId, and the eventId of a room
\* assignment; id is the id in the URL, or the id the server assigned.
Post(kind, id, by, r, name, venueId, event) ==
  [m |-> "POST", kind |-> kind, id |-> id, by |-> by, status |-> r.status,
   exc |-> r.exc, data |-> r.data, name |-> name, venueId |-> venueId,
   event |-> event]
Req(m, kind, id, by, r) ==
  [m |-> m, kind |-> kind, id |-> id, by |-> by, status |-> r.status,
   exc |-> r.exc, data |-> r.data, name |-> "", venueId |-> NoId, event |-> NoId]
Sleep(by) ==
  [m |-> "SLEEP", kind |-> "none", id |-> NoId, by |-> by, status |-> 0,
   exc |-> NoExc, data |-> FALSE, name |-> "", venueId |-> NoId, event |-> NoId]

\* the request was answered as its caller needs: 200 with the data, or, for
\* the signup, 409 (the user exists already)
EntryOk(e) ==
  \/ e.m = "SLEEP"
  \/ e.exc = NoExc /\ e.status = 200 /\ e.data
  \/ e.exc = NoExc /\ e.status = 409 /\ e.kind = "auth/signup"

\* the request met a transport failure or an error status
EntryFailed(e) == e.m # "SLEEP" /\ (e.exc # NoExc \/ e.status >= 400)

(***************************************************************************)
(* The server's store.                                                     *)
(***************************************************************************)
Table(kind) ==
  CASE kind = "venue" -> venues
    [] kind = "room" -> rooms
    [] kind = "event" -> events

Remove(table, id) == SelectSeq(table, LAMBDA e : e.id # id)

VenueCount(name) == Cardinality({i \in DOMAIN venues : venues[i].venueName = name})


(***************************************************************************)
(* The process: one script runs at a time, from its main() to its exit.    *)
(***************************************************************************)
AllOk(l) == \A i \in DOMAIN l : EntryOk(l[i])

\* what a finished run leaves behind: its exit status and the store's size
Summary(l, status) ==
  [script |-> script, exit |-> status, ok |-> AllOk(l),
   venues |-> Len(venues), rooms |-> Len(rooms), events |-> Len(events)]

\* go on to the statement at nextpc, having issued the requests of l
Goto(nextpc, l) ==
  /\ pc' = nextpc
  /\ log' = l
  /\ UNCHANGED <<script, runs, exit_status, history, uncaught, otherVars>>

\* the same, in a statement that reads no prompt and is not EventDeleter's
Step(nextpc, l) == Goto(nextpc, l) /\ UNCHANGED toolVars

\* sys.exit(status), or the return of main(); e is the exception that reached
\* main's handler, if one did.  The store is as the last request left it.
Exit(status, l, e) ==
  /\ pc' = "done"
  /\ log' = l
  /\ exit_status' = status
  /\ uncaught' = e
  /\ history' = Append(history, Summary(l, status))
  /\ UNCHANGED <<script, runs, otherVars>>

Finish(status, l, e) == Exit(status, l, e) /\ UNCHANGED toolVars

\* the locals of both classes as their constructors and first lines leave them
FreshLocals ==
  /\ phase = 1
  /\ entities = <<>>
  /\ idx = 1
  /\ deleted_count = 0
  /\ total_deleted = 0
  /\ returned = <<>>
  /\ message = ""
  /\ session_token = FALSE
  /\ venue_index = 1
  /\ existing_venue = NoId
  /\ created_venues = [n \in Range(venues_data) |-> NoId]
  /\ created_rooms = <<>>
  /\ created_events = <<>>
  /\ room_venue_index = 1
  /\ room_index = 1
  /\ event_index = 1
  /\ assign_index = 1
  /\ reported = <<>>
  /\ response = NoAnswer
  /\ confirm = NoAnswer
  /\ successful = 0
  /\ failed = 0

ResetLocals ==
  /\ phase' = 1
  /\ entities' = <<>>
  /\ idx' = 1
  /\ deleted_count' = 0
  /\ total_deleted' = 0
  /\ returned' = <<>>
  /\ message' = ""
  /\ session_token' = FALSE
  /\ venue_index' = 1
  /\ existing_venue' = NoId
  /\ created_venues' = [n \in Range(venues_data) |-> NoId]
  /\ created_rooms' = <<>>
  /\ created_events' = <<>>
  /\ room_venue_index' = 1
  /\ room_index' = 1
  /\ event_index' = 1
  /\ assign_index' = 1
  /\ reported' = <<>>
  /\ response' = NoAnswer
  /\ confirm' = NoAnswer
  /\ successful' = 0
  /\ failed' = 0

StartRun(name, first) ==
  /\ pc \in {"idle", "done"}
  /\ runs < MaxRuns
  /\ script' = name
  /\ pc' = first
  /\ runs' = runs + 1
  /\ exit_status' = -1
  /\ log' = <<>>
  /\ uncaught' = NoExc
  /\ ResetLocals
  /\ UNCHANGED <<storeVars, failures, history, otherVars>>

\* the server's answer is counted when the caller takes it as a failure
Answer(r, accepted) ==
  failures' = IF r \in accepted THEN failures ELSE failures + 1

\* DELETE /{kind}s/{id} answered by r
StoreDelete(kind, id, r) ==
  /\ venues' = IF Succeeded(r) /\ kind = "venue" THEN Remove(venues, id) ELSE venues
  /\ rooms' = IF Succeeded(r) /\ kind = "room" THEN Remove(rooms, id) ELSE rooms
  /\ events' = IF Succeeded(r) /\ kind = "event" THEN Remove(events, id) ELSE events
  /\ nextId' = nextId

(***************************************************************************)
(* delete-all.py: DataCleaner.                                             *)
(***************************************************************************)
\* str.lower() on the answers the operator may type
lower(s) ==
  CASE s = "YES" -> "yes" [] s = "Y" -> "y" [] s = " YES " -> " yes " [] OTHER -> s

ConfirmAnswers == {"yes", "Y", "no", ""}

\* a status that is neither 200 nor a transport failure
ProbeFailures ==
  FailedResponses \cup {[exc |-> NoExc, status |-> 401, data |-> FALSE]}

\* DataCleaner.check_server: no raise_for_status, the status is compared
cleaner_check_server(r) ==
  IF r.exc # NoExc
  THEN [raised |-> IF r.exc \in RequestException THEN NoExc ELSE r.exc,
        value |-> FALSE]
  ELSE [raised |-> NoExc, value |-> r.status = 200]

\* a listing that yields the first entity of the table only
get_first_entity(r, table) ==
  LET e == IF r.exc # NoExc THEN r.exc
           ELSE IF r.status >= 400 THEN "HTTPError" ELSE NoExc
  IN IF e = NoExc
     THEN [raised |-> NoExc,
           value |-> IF r.data /\ table # <<>> THEN <<table[1]>> ELSE <<>>]
     ELSE [raised |-> NoExc, value |-> <<>>]

\* DataCleaner.get_all_entities and DataPopulator.get_all_venues/events/rooms
get_all_entities(r, table) ==
  LET e == TryRaises(r)
  IN IF e = NoExc THEN [raised |-> NoExc, value |-> IF r.data THEN table ELSE <<>>]
     ELSE IF e \in RequestException THEN [raised |-> NoExc, value |-> <<>>]
     ELSE [raised |-> e, value |-> <<>>]

\* DataCleaner.delete_entity and DataPopulator.delete_entity
delete_entity(r) ==
  LET e == TryRaises(r)
  IN IF e = NoExc THEN [raised |-> NoExc, value |-> TRUE]
     ELSE IF e \in RequestException THEN [raised |-> NoExc, value |-> FALSE]
     ELSE [raised |-> e, value |-> FALSE]

\* the reverse order: venues, then rooms, then events
VenuesFirst == <<"venue", "room", "event">>

\* cleanup_all_data: the order of its three delete_all_entities calls
CleanupOrder == <<"event", "room", "venue">>

\* cleanup_all_data: `if not self.check_server(): ... sys.exit(1)`
cleaner_after_check(running) ==
  IF running THEN "delete_all_entities" ELSE "exit"

\* a tally of the delete requests issued, whatever their outcome
count_attempted(count, deleted) == count + 1

\* delete_all_entities: `if self.delete_entity(...): deleted_count += 1`
count_deleted(count, deleted) == IF deleted THEN count + 1 ELSE count

\* a pause after every delete request, whatever its outcome
pause_after_every_delete(l, deleted) == Append(l, Sleep("delete_all_entities"))

\* delete_all_entities: `time.sleep(0.1)` in the branch of a successful delete
pause_after_delete(l, deleted) ==
  IF deleted THEN Append(l, Sleep("delete_all_entities")) ELSE l

StartCleaner == StartRun("delete-all", "main")

\* main: the confirmation prompt
CleanerMain ==
  /\ script = "delete-all" /\ pc = "main"
  /\ \E answer \in ConfirmAnswers :
       /\ response' = answer
       /\ IF lower(answer) \in {"yes", "y"}
          THEN Goto("check_server", log)
          ELSE Exit(0, log, NoExc)
  /\ UNCHANGED <<storeVars, failures, cleanerVars, loopVars, populatorVars,
                 confirm, deleterVars>>

\* cleanup_all_data: the reachability probe
CleanerCheckServer ==
  /\ script = "delete-all" /\ pc = "check_server"
  /\ \E r \in Responses({OkResponse}, ProbeFailures) :
       LET res == cleaner_check_server(r)
           l == Append(log, Req("GET", "venue", NoId, "check_server", r))
       IN /\ Answer(r, {OkResponse})
          /\ IF res.raised # NoExc THEN Finish(1, l, res.raised)
             ELSE IF cleaner_after_check(res.value) = "exit"
             THEN Finish(1, l, NoExc)
             ELSE Step(cleaner_after_check(res.value), l)
  /\ UNCHANGED <<storeVars, cleanerVars, loopVars, populatorVars>>

\* the statement after a delete_all_entities call that returned count
CleanerReturns(count, l) ==
  /\ returned' = Append(returned, count)
  /\ total_deleted' = total_deleted + count
  /\ IF phase < Len(CleanupOrder)
     THEN phase' = phase + 1 /\ Step("delete_all_entities", l)
     ELSE phase' = phase /\ Step("report", l)

\* delete_all_entities: the listing, and the early return on an empty one
CleanerList ==
  /\ script = "delete-all" /\ pc = "delete_all_entities"
  /\ \E r \in Responses({OkResponse}, FailedResponses) :
       LET kind == CleanupOrder[phase]
           res == get_all_entities(r, Table(kind))
           l == Append(log, Req("GET", kind, NoId, "get_all_entities", r))
       IN /\ Answer(r, {OkResponse})
          /\ IF res.raised # NoExc
             THEN /\ Finish(1, l, res.raised)
                  /\ UNCHANGED <<cleanerVars, loopVars>>
             ELSE IF res.value = <<>>
             THEN /\ CleanerReturns(0, l)
                  /\ entities' = res.value
                  /\ UNCHANGED <<deleted_count, message, idx>>
             ELSE /\ entities' = res.value
                  /\ idx' = 1
                  /\ deleted_count' = 0
                  /\ Step("delete_loop", l)
                  /\ UNCHANGED <<phase, total_deleted, returned, message>>
  /\ UNCHANGED <<storeVars, populatorVars>>

\* delete_all_entities: one iteration of `for entity in entities`
CleanerDelete ==
  /\ script = "delete-all" /\ pc = "delete_loop"
  /\ idx <= Len(entities)
  /\ LET kind == CleanupOrder[phase]
         entity_id == entities[idx].id
     IN IF entity_id = NoId
        THEN /\ idx' = idx + 1
             /\ Step("delete_loop", log)
             /\ UNCHANGED <<storeVars, failures, entities, cleanerVars>>
        ELSE \E r \in Responses({OkResponse}, FailedResponses) :
               LET res == delete_entity(r)
                   l == Append(log, Req("DELETE", kind, entity_id,
                                        "delete_all_entities", r))
               IN /\ Answer(r, {OkResponse})
                  /\ StoreDelete(kind, entity_id, r)
                  /\ IF res.raised # NoExc
                     THEN /\ Finish(1, l, res.raised)
                          /\ UNCHANGED <<cleanerVars, loopVars>>
                     ELSE /\ deleted_count' = count_deleted(deleted_count, res.value)
                          /\ idx' = idx + 1
                          /\ Step("delete_loop", pause_after_delete(l, res.value))
                          /\ UNCHANGED <<entities, phase, total_deleted, returned, message>>
  /\ UNCHANGED populatorVars

\* delete_all_entities: the loop is over, `return deleted_count`
CleanerReturn ==
  /\ script = "delete-all" /\ pc = "delete_loop"
  /\ idx > Len(entities)
  /\ CleanerReturns(deleted_count, log)
  /\ UNCHANGED <<storeVars, failures, deleted_count, message, loopVars, populatorVars>>

\* cleanup_all_data: the report, and the return to main
CleanerReport ==
  /\ script = "delete-all" /\ pc = "report"
  /\ message' = IF total_deleted = 0 THEN "No data found to delete"
                ELSE "All development data has been removed"
  /\ Finish(0, log, NoExc)
  /\ UNCHANGED <<storeVars, failures, phase, deleted_count, total_deleted,
                 returned, loopVars, populatorVars>>

Cleaner ==
  \/ StartCleaner
  \/ CleanerMain
  \/ CleanerCheckServer
  \/ CleanerList
  \/ CleanerDelete
  \/ CleanerReturn
  \/ CleanerReport

(***************************************************************************)
(* populate-dev-data.py: DataPopulator.                                    *)
(***************************************************************************)
\* POST answered by r: the server stores the record under a fresh id
StoreCreate(kind, record, r) ==
  /\ venues' = IF Succeeded(r) /\ kind = "venue" THEN Append(venues, record) ELSE venues
  /\ rooms' = IF Succeeded(r) /\ kind = "room" THEN Append(rooms, record) ELSE rooms
  /\ events' = IF Succeeded(r) /\ kind = "event" THEN Append(events, record) ELSE events
  /\ nextId' = IF Succeeded(r) THEN nextId + 1 ELSE nextId

\* DataPopulator.check_server, the probe of the root URL: "fallback" when the
\* request raised, otherwise whether the status is 200
populator_check_server(r) ==
  IF r.exc # NoExc
  THEN IF r.exc \in RequestException THEN "fallback" ELSE r.exc
  ELSE IF r.status = 200 THEN "running" ELSE "down"

\* DataPopulator.check_server, the probe of /venues in the except branch
populator_check_venues(r) ==
  IF r.exc # NoExc
  THEN IF r.exc \in RequestException THEN "down" ELSE r.exc
  ELSE IF r.status \in {200, 401} THEN "running" ELSE "down"

\* a 401 answer: the server runs, and wants a session
Unauthorized == [exc |-> NoExc, status |-> 401, data |-> FALSE]
\* a 409 answer to the signup: the user exists already
Conflict == [exc |-> NoExc, status |-> 409, data |-> FALSE]

\* authenticate, the signup: a status outside 200, 201, 409 is only printed
signup_accepted(r) == r.exc = NoExc /\ r.status \in {200, 201, 409}

\* a login that looks at the status only
login_status(r) == r.exc = NoExc /\ r.status = 200

\* authenticate, the login: the session token, "" when there is none
login_token(r) == r.exc = NoExc /\ r.status = 200 /\ r.data

\* authenticate's except clause, for the exception of either request
authenticate_raises(r) ==
  IF r.exc = NoExc \/ r.exc \in RequestException THEN NoExc ELSE r.exc

\* a lookup that goes on after a match and returns the last one
find_last_venue_by_name(listing, venue_name) ==
  LET hits == {i \in DOMAIN listing : listing[i].venueName = venue_name}
  IN IF hits = {} THEN NoId
     ELSE listing[CHOOSE i \in hits : \A j \in hits : i >= j].id

\* find_venue_by_name: the first venue of the listing that bears the name
find_venue_by_name(listing, venue_name) ==
  LET hits == {i \in DOMAIN listing : listing[i].venueName = venue_name}
  IN IF hits = {} THEN NoId
     ELSE listing[CHOOSE i \in hits : \A j \in hits : i <= j].id

\* a create_venue that returns an id whatever the answer was
create_venue_unchecked(r, id) == [raised |-> NoExc, value |-> id]

\* create_venue: the id the server returned, None when the request failed or
\* the answer carries no venueId
create_venue(r, id) ==
  LET e == TryRaises(r)
  IN IF e = NoExc THEN [raised |-> NoExc, value |-> IF r.data THEN id ELSE NoId]
     ELSE IF e \in RequestException THEN [raised |-> NoExc, value |-> NoId]
     ELSE [raised |-> e, value |-> NoId]

\* a create_room without its try block: the exception reaches the caller
create_room_unguarded(r, id) ==
  IF r.exc # NoExc THEN [raised |-> r.exc, value |-> NoId]
  ELSE IF r.status >= 400 THEN [raised |-> "HTTPError", value |-> NoId]
  ELSE [raised |-> NoExc, value |-> IF r.data THEN id ELSE NoId]

\* create_room
create_room(r, id) ==
  LET e == TryRaises(r)
  IN IF e = NoExc THEN [raised |-> NoExc, value |-> IF r.data THEN id ELSE NoId]
     ELSE IF e \in RequestException THEN [raised |-> NoExc, value |-> NoId]
     ELSE [raised |-> e, value |-> NoId]

\* create_event
create_event(r, id) ==
  LET e == TryRaises(r)
  IN IF e = NoExc THEN [raised |-> NoExc, value |-> IF r.data THEN id ELSE NoId]
     ELSE IF e \in RequestException THEN [raised |-> NoExc, value |-> NoId]
     ELSE [raised |-> e, value |-> NoId]

\* assign_room_to_event
assign_room_to_event(r) ==
  LET e == TryRaises(r)
  IN IF e = NoExc THEN [raised |-> NoExc, value |-> TRUE]
     ELSE IF e \in RequestException THEN [raised |-> NoExc, value |-> FALSE]
     ELSE [raised |-> e, value |-> FALSE]

\* room assignment for the events of every venue
AssignsRoomsAlways(venue_name) == TRUE

\* the venues for whose events populate_data assigns rooms
AssignsRooms(venue_name) == venue_name = MONKEY_PUZZLE_VENUE

\* a populate_data that goes on whatever check_server returned
proceed_after_check(running) == "authenticate"

\* populate_data: `if not self.check_server(): ... sys.exit(1)`
populator_after_check(running) == IF running THEN "authenticate" ELSE "exit"

\* populate_data: `if not self.authenticate(): ... sys.exit(1)`
populator_after_authenticate(authenticated) ==
  IF authenticated THEN "find_venue" ELSE "exit"

StartPopulator == StartRun("populate-dev-data", "check_server")

\* populate_data: check_server, the probe of the root URL
PopulatorCheckServer ==
  /\ script = "populate-dev-data" /\ pc = "check_server"
  /\ \E r \in Responses({OkResponse}, ProbeFailures) :
       LET res == populator_check_server(r)
           l == Append(log, Req("GET", "root", NoId, "check_server", r))
       IN /\ Answer(r, {OkResponse})
          /\ CASE res = "fallback" -> Step("check_server_fallback", l)
               [] res \in {"running", "down"} ->
                    IF populator_after_check(res = "running") = "exit"
                    THEN Finish(1, l, NoExc)
                    ELSE Step(populator_after_check(res = "running"), l)
               [] OTHER -> Finish(1, l, res)
  /\ UNCHANGED <<storeVars, cleanerVars, loopVars, populatorVars>>

\* check_server: the probe of /venues after the root probe raised
PopulatorCheckVenues ==
  /\ script = "populate-dev-data" /\ pc = "check_server_fallback"
  /\ \E r \in Responses({OkResponse, Unauthorized}, FailedResponses) :
       LET res == populator_check_venues(r)
           l == Append(log, Req("GET", "venue", NoId, "check_server", r))
       IN /\ Answer(r, {OkResponse, Unauthorized})
          /\ CASE res \in {"running", "down"} ->
                    IF populator_after_check(res = "running") = "exit"
                    THEN Finish(1, l, NoExc)
                    ELSE Step(populator_after_check(res = "running"), l)
               [] OTHER -> Finish(1, l, res)
  /\ UNCHANGED <<storeVars, cleanerVars, loopVars, populatorVars>>

\* authenticate: POST /auth/signup
PopulatorSignup ==
  /\ script = "populate-dev-data" /\ pc = "authenticate"
  /\ \E r \in Responses({OkResponse}, FailedResponses \cup {Conflict}) :
       LET l == Append(log, Req("POST", "auth/signup", NoId, "authenticate", r))
       IN /\ Answer(r, {OkResponse})
          /\ IF authenticate_raises(r) # NoExc
             THEN Finish(1, l, authenticate_raises(r))
             ELSE IF r.exc # NoExc
             THEN IF populator_after_authenticate(FALSE) = "exit"
                  THEN Finish(1, l, NoExc)
                  ELSE Step(populator_after_authenticate(FALSE), l)
             ELSE Step("login", l)
  /\ UNCHANGED <<storeVars, cleanerVars, loopVars, populatorVars>>

\* authenticate: POST /auth/login, and populate_data's exit when it fails
PopulatorLogin ==
  /\ script = "populate-dev-data" /\ pc = "login"
  /\ \E r \in Responses({OkResponse},
                        FailedResponses \cup EmptyResponses \cup {Unauthorized}) :
       LET l == Append(log, Req("POST", "auth/login", NoId, "authenticate", r))
       IN /\ Answer(r, {OkResponse})
          /\ IF authenticate_raises(r) # NoExc
             THEN Finish(1, l, authenticate_raises(r)) /\ UNCHANGED session_token
             ELSE /\ session_token' = login_token(r)
                  /\ IF populator_after_authenticate(login_token(r)) = "exit"
                     THEN Finish(1, l, NoExc)
                     ELSE Step(populator_after_authenticate(login_token(r)), l)
  /\ UNCHANGED <<storeVars, cleanerVars, loopVars, venue_index, existing_venue,
                 created_venues, created_rooms, created_events, room_venue_index,
                 room_index, event_index, assign_index, reported>>

\* `for venue_data in venues_data`: find_venue_by_name
PopulatorFindVenue ==
  /\ script = "populate-dev-data" /\ pc = "find_venue"
  /\ \E r \in Responses({OkResponse}, FailedResponses) :
       LET res == get_all_entities(r, venues)
           l == Append(log, Req("GET", "venue", NoId, "find_venue_by_name", r))
           found == find_venue_by_name(res.value, venues_data[venue_index])
       IN /\ Answer(r, {OkResponse})
          /\ IF res.raised # NoExc
             THEN Finish(1, l, res.raised) /\ UNCHANGED existing_venue
             ELSE /\ existing_venue' = found
                  /\ Step(IF found # NoId THEN "cleanup_venue_data" ELSE "create_venue", l)
  /\ UNCHANGED <<storeVars, cleanerVars, loopVars, session_token, venue_index,
                 created_venues, created_rooms, created_events, room_venue_index,
                 room_index, event_index, assign_index, reported>>

PopulatorLoopFrame ==
  UNCHANGED <<cleanerVars, session_token, venue_index, existing_venue,
              created_venues, created_rooms, created_events, room_venue_index,
              room_index, event_index, assign_index, reported>>

\* cleanup_venue_data: get_all_events
PopulatorListEvents ==
  /\ script = "populate-dev-data" /\ pc = "cleanup_venue_data"
  /\ \E r \in Responses({OkResponse}, FailedResponses) :
       LET res == get_all_entities(r, events)
           l == Append(log, Req("GET", "event", NoId, "cleanup_venue_data", r))
       IN /\ Answer(r, {OkResponse})
          /\ IF res.raised # NoExc
             THEN Finish(1, l, res.raised) /\ UNCHANGED loopVars
             ELSE entities' = res.value /\ idx' = 1 /\ Step("cleanup_events", l)
  /\ UNCHANGED storeVars
  /\ PopulatorLoopFrame

\* a cleanup that takes every listed entity, whatever venue it names
OfAnyVenue(entity) == entity.id # NoId

\* cleanup_venue_data's `if event.get("venueId") == venue_id` and `if event_id`
OfVenue(entity) == entity.venueId = existing_venue /\ entity.id # NoId

\* the next iteration of a loop of cleanup_venue_data that deletes an entity;
\* the iterations before it find another venue's entity and do nothing
PopulatorCleanupIteration(kind) ==
  /\ NextMatch(entities, idx, OfVenue) # 0
  /\ LET at == NextMatch(entities, idx, OfVenue)
         entity == entities[at]
     IN \E r \in Responses({OkResponse}, FailedResponses) :
          LET res == delete_entity(r)
              l == Append(log, Req("DELETE", kind, entity.id,
                                   "cleanup_venue_data", r))
          IN /\ Answer(r, {OkResponse})
             /\ StoreDelete(kind, entity.id, r)
             /\ IF res.raised # NoExc
                THEN Finish(1, l, res.raised) /\ UNCHANGED idx
                ELSE idx' = at + 1 /\ Step(pc, l)
  /\ UNCHANGED entities
  /\ PopulatorLoopFrame

\* cleanup_venue_data: `for event in events`
PopulatorCleanupEvent ==
  /\ script = "populate-dev-data" /\ pc = "cleanup_events"
  /\ PopulatorCleanupIteration("event")

\* cleanup_venue_data: get_all_rooms
PopulatorListRooms ==
  /\ script = "populate-dev-data" /\ pc = "cleanup_events"
  /\ NextMatch(entities, idx, OfVenue) = 0
  /\ \E r \in Responses({OkResponse}, FailedResponses) :
       LET res == get_all_entities(r, rooms)
           l == Append(log, Req("GET", "room", NoId, "cleanup_venue_data", r))
       IN /\ Answer(r, {OkResponse})
          /\ IF res.raised # NoExc
             THEN Finish(1, l, res.raised) /\ UNCHANGED loopVars
             ELSE entities' = res.value /\ idx' = 1 /\ Step("cleanup_rooms", l)
  /\ UNCHANGED storeVars
  /\ PopulatorLoopFrame

\* cleanup_venue_data: `for room in rooms`
PopulatorCleanupRoom ==
  /\ script = "populate-dev-data" /\ pc = "cleanup_rooms"
  /\ PopulatorCleanupIteration("room")

\* cleanup_venue_data: the delete of the venue itself, and the pause
PopulatorDeleteVenue ==
  /\ script = "populate-dev-data" /\ pc = "cleanup_rooms"
  /\ NextMatch(entities, idx, OfVenue) = 0
  /\ \E r \in Responses({OkResponse}, FailedResponses) :
       LET res == delete_entity(r)
           l == Append(log, Req("DELETE", "venue", existing_venue,
                                "cleanup_venue_data", r))
       IN /\ Answer(r, {OkResponse})
          /\ StoreDelete("venue", existing_venue, r)
          /\ IF res.raised # NoExc
             THEN Finish(1, l, res.raised)
             ELSE Step("create_venue", Append(l, Sleep("cleanup_venue_data")))
  /\ UNCHANGED loopVars
  /\ PopulatorLoopFrame

\* `for venue_data in venues_data`: create_venue, and the next venue
PopulatorCreateVenue ==
  /\ script = "populate-dev-data" /\ pc = "create_venue"
  /\ \E r \in Responses({OkResponse}, FailedResponses \cup EmptyResponses) :
       LET venue_name == venues_data[venue_index]
           res == create_venue(r, nextId)
           l == Append(log, Post("venue", IF Succeeded(r) THEN nextId ELSE NoId,
                                 "create_venue", r, venue_name, NoId, NoId))
       IN /\ Answer(r, {OkResponse})
          /\ StoreCreate("venue", [id |-> nextId, venueName |-> venue_name], r)
          /\ IF res.raised # NoExc
             THEN Finish(1, l, res.raised) /\ UNCHANGED <<created_venues, venue_index>>
             ELSE /\ created_venues' =
                       IF res.value # NoId
                       THEN [created_venues EXCEPT ![venue_name] = res.value]
                       ELSE created_venues
                  /\ venue_index' = venue_index + 1
                  /\ Step(IF venue_index < Len(venues_data) THEN "find_venue"
                          ELSE "create_rooms", l)
  /\ UNCHANGED <<cleanerVars, loopVars, session_token, existing_venue, created_rooms,
                 created_events, room_venue_index, room_index, event_index,
                 assign_index, reported>>

\* `for venue_name, rooms in rooms_data.items()`: the venue was not created
PopulatorSkipRooms ==
  /\ script = "populate-dev-data" /\ pc = "create_rooms"
  /\ created_venues[rooms_data[room_venue_index].venueName] = NoId
  /\ room_venue_index' = room_venue_index + 1
  /\ Step(IF room_venue_index < Len(rooms_data) THEN "create_rooms" ELSE "create_events",
          log)
  /\ UNCHANGED <<storeVars, failures, cleanerVars, loopVars, session_token, venue_index,
                 existing_venue, created_venues, created_rooms, created_events,
                 room_index, event_index, assign_index, reported>>

\* `for room_data in rooms`: create_room
PopulatorCreateRoom ==
  /\ script = "populate-dev-data" /\ pc = "create_rooms"
  /\ created_venues[rooms_data[room_venue_index].venueName] # NoId
  /\ \E r \in Responses({OkResponse}, FailedResponses \cup EmptyResponses) :
       LET venue_name == rooms_data[room_venue_index].venueName
           venue_id == created_venues[venue_name]
           room_name == rooms_data[room_venue_index].rooms[room_index]
           last == room_index = Len(rooms_data[room_venue_index].rooms)
           res == create_room(r, nextId)
           l == Append(log, Post("room", IF Succeeded(r) THEN nextId ELSE NoId,
                                 "create_room", r, room_name, venue_id, NoId))
       IN /\ Answer(r, {OkResponse})
          /\ StoreCreate("room", [id |-> nextId, venueId |-> venue_id,
                                  name |-> room_name], r)
          /\ IF res.raised # NoExc
             THEN /\ Finish(1, l, res.raised)
                  /\ UNCHANGED <<created_rooms, room_index, room_venue_index>>
             ELSE /\ created_rooms' =
                       IF res.value # NoId
                       THEN Append(created_rooms,
                                   [roomId |-> res.value, roomName |-> room_name,
                                    venueName |-> venue_name])
                       ELSE created_rooms
                  /\ room_index' = IF last THEN 1 ELSE room_index + 1
                  /\ room_venue_index' =
                       IF last THEN room_venue_index + 1 ELSE room_venue_index
                  /\ Step(IF last /\ room_venue_index = Len(rooms_data)
                          THEN "create_events" ELSE "create_rooms", l)
  /\ UNCHANGED <<cleanerVars, loopVars, session_token, venue_index, existing_venue,
                 created_venues, created_events, event_index, assign_index, reported>>

\* `for event_data in events_data`: the venue was not created
PopulatorSkipEvent ==
  /\ script = "populate-dev-data" /\ pc = "create_events"
  /\ event_index <= Len(events_data)
  /\ created_venues[events_data[event_index].venueName] = NoId
  /\ event_index' = event_index + 1
  /\ Step("create_events", log)
  /\ UNCHANGED <<storeVars, failures, cleanerVars, loopVars, session_token, venue_index,
                 existing_venue, created_venues, created_rooms, created_events,
                 room_venue_index, room_index, assign_index, reported>>

\* `for event_data in events_data`: create_event
PopulatorCreateEvent ==
  /\ script = "populate-dev-data" /\ pc = "create_events"
  /\ event_index <= Len(events_data)
  /\ created_venues[events_data[event_index].venueName] # NoId
  /\ \E r \in Responses({OkResponse}, FailedResponses \cup EmptyResponses) :
       LET event_data == events_data[event_index]
           venue_id == created_venues[event_data.venueName]
           res == create_event(r, nextId)
           l == Append(log, Post("event", IF Succeeded(r) THEN nextId ELSE NoId,
                                 "create_event", r, event_data.name, venue_id, NoId))
       IN /\ Answer(r, {OkResponse})
          /\ StoreCreate("event", [id |-> nextId, venueId |-> venue_id,
                                   name |-> event_data.name], r)
          /\ IF res.raised # NoExc
             THEN /\ Finish(1, l, res.raised)
                  /\ UNCHANGED <<created_events, event_index, assign_index>>
             ELSE IF res.value = NoId
             THEN /\ event_index' = event_index + 1
                  /\ Step("create_events", l)
                  /\ UNCHANGED <<created_events, assign_index>>
             ELSE /\ created_events' = Append(created_events, res.value)
                  /\ IF AssignsRooms(event_data.venueName)
                     THEN /\ assign_index' = 1
                          /\ event_index' = event_index
                          /\ Step("assign_rooms", l)
                     ELSE /\ event_index' = event_index + 1
                          /\ Step("create_events", l)
                          /\ UNCHANGED assign_index
  /\ UNCHANGED <<cleanerVars, loopVars, session_token, venue_index, existing_venue,
                 created_venues, created_rooms, room_venue_index, room_index, reported>>

\* `if room_info["venueName"] == venue_name`, for the event being created
OfEventVenue(room_info) == room_info.venueName = events_data[event_index].venueName

\* `for room_id, room_info in created_rooms.items()`: the next iteration that
\* calls assign_room_to_event; those before it find another venue's room
PopulatorAssignRoom ==
  /\ script = "populate-dev-data" /\ pc = "assign_rooms"
  /\ NextMatch(created_rooms, assign_index, OfEventVenue) # 0
  /\ LET at == NextMatch(created_rooms, assign_index, OfEventVenue)
         room_info == created_rooms[at]
         event_id == created_events[Len(created_events)]
     IN \E r \in Responses({OkResponse}, FailedResponses) :
          LET res == assign_room_to_event(r)
              l == Append(log, Post("event-room", room_info.roomId,
                                    "assign_room_to_event", r, "", NoId, event_id))
          IN /\ Answer(r, {OkResponse})
             /\ IF res.raised # NoExc
                THEN Finish(1, l, res.raised) /\ UNCHANGED assign_index
                ELSE assign_index' = at + 1 /\ Step("assign_rooms", l)
  /\ UNCHANGED <<storeVars, cleanerVars, loopVars, session_token, venue_index,
                 existing_venue, created_venues, created_rooms, created_events,
                 room_venue_index, room_index, event_index, reported>>

\* no room of the venue is left: the next event
PopulatorAssignDone ==
  /\ script = "populate-dev-data" /\ pc = "assign_rooms"
  /\ NextMatch(created_rooms, assign_index, OfEventVenue) = 0
  /\ event_index' = event_index + 1
  /\ Step("create_events", log)
  /\ UNCHANGED <<storeVars, failures, cleanerVars, loopVars, session_token, venue_index,
                 existing_venue, created_venues, created_rooms, created_events,
                 room_venue_index, room_index, assign_index, reported>>

\* populate_data: the summary it prints, and the return to main
PopulatorSummary ==
  /\ script = "populate-dev-data" /\ pc = "create_events"
  /\ event_index > Len(events_data)
  /\ reported' =
       << Cardinality({n \in DOMAIN created_venues : created_venues[n] # NoId}),
          Len(created_rooms), Len(created_events) >>
  /\ Finish(0, log, NoExc)
  /\ UNCHANGED <<storeVars, failures, cleanerVars, loopVars, session_token, venue_index,
                 existing_venue, created_venues, created_rooms, created_events,
                 room_venue_index, room_index, event_index, assign_index>>

Populator ==
  \/ StartPopulator
  \/ PopulatorCheckServer
  \/ PopulatorCheckVenues
  \/ PopulatorSignup
  \/ PopulatorLogin
  \/ PopulatorFindVenue
  \/ PopulatorListEvents
  \/ PopulatorCleanupEvent
  \/ PopulatorListRooms
  \/ PopulatorCleanupRoom
  \/ PopulatorDeleteVenue
  \/ PopulatorCreateVenue
  \/ PopulatorSkipRooms
  \/ PopulatorCreateRoom
  \/ PopulatorSkipEvent
  \/ PopulatorCreateEvent
  \/ PopulatorAssignRoom
  \/ PopulatorAssignDone
  \/ PopulatorSummary

(***************************************************************************)
(* delete-specific-events.py: EventDeleter.  It reads and writes the       *)
(* events table itself, with no request to the server.                     *)
(***************************************************************************)
\* main: the two event ids it deletes; the store may hold an event under
\* either, or not
event_ids_to_delete == <<3, 5>>

\* an operation on the table that raised: botocore's ClientError, or another
\* exception
TableFailures ==
  { [exc |-> "ClientError", status |-> 0, data |-> FALSE],
    [exc |-> "RuntimeError", status |-> 0, data |-> FALSE] }

\* the classes `except Exception` catches; KeyboardInterrupt is not one
ExceptionClasses ==
  RequestException \cup {"ClientError", "RuntimeError", "EOFError"}

\* str.strip() on the answers the operator may type
strip(s) == CASE s = " yes " -> "yes" [] s = " YES " -> "YES" [] OTHER -> s

DeleterAnswers == {"yes", " YES ", "y", "no", ""}

\* a main that takes any answer for a confirmation
confirmed_always(answer) == TRUE

\* main: `confirm = input(...).lower().strip()`, `if confirm != "yes": return`
confirmed(answer) == strip(lower(answer)) = "yes"

\* list_events: its try block catches every Exception
list_events(r) ==
  IF r.exc = NoExc \/ r.exc \in ExceptionClasses THEN NoExc ELSE r.exc

\* a delete_event without `if "Item" not in response: return False`
get_item_unchecked(r, table, event_id) ==
  IF r.exc # NoExc THEN "raised" ELSE "found"

\* delete_event, get_item: "raised", "missing" (`"Item" not in response`), or
\* "found"
get_item(r, table, event_id) ==
  IF r.exc # NoExc THEN "raised"
  ELSE IF \E k \in DOMAIN table : table[k].id = event_id THEN "found"
  ELSE "missing"

\* delete_event's except clauses: ClientError, then Exception
delete_event_raises(r) ==
  IF r.exc = NoExc \/ r.exc \in ExceptionClasses THEN NoExc ELSE r.exc

DeleterFrame == UNCHANGED <<cleanerVars, entities, populatorVars, response>>

StartDeleter == StartRun("delete-specific-events", "list_events")

\* main: list_events, before the prompt and after the deletion
DeleterListEvents ==
  /\ script = "delete-specific-events" /\ pc \in {"list_events", "list_events_after"}
  /\ \E r \in Responses({OkResponse}, TableFailures) :
       LET l == Append(log, Req("SCAN", "event", NoId, "list_events", r))
       IN /\ Answer(r, {OkResponse})
          /\ IF list_events(r) # NoExc THEN Exit(1, l, list_events(r))
             ELSE IF pc = "list_events" THEN Goto("confirm", l)
             ELSE Exit(0, l, NoExc)
  /\ UNCHANGED <<storeVars, idx, confirm, deleterVars>>
  /\ DeleterFrame

\* main: the confirmation prompt
DeleterConfirm ==
  /\ script = "delete-specific-events" /\ pc = "confirm"
  /\ \E answer \in DeleterAnswers :
       /\ confirm' = strip(lower(answer))
       /\ IF confirmed(answer) THEN Goto("get_item", log) ELSE Exit(0, log, NoExc)
  /\ UNCHANGED <<storeVars, failures, idx, deleterVars>>
  /\ DeleterFrame

\* delete_events: the step after delete_event returned deleted
DeleterCounts(deleted, l) ==
  /\ successful' = IF deleted THEN successful + 1 ELSE successful
  /\ failed' = IF deleted THEN failed ELSE failed + 1
  /\ idx' = idx + 1
  /\ Goto(IF idx < Len(event_ids_to_delete) THEN "get_item" ELSE "list_events_after", l)

\* delete_event: get_item
DeleterGetItem ==
  /\ script = "delete-specific-events" /\ pc = "get_item"
  /\ \E r \in Responses({OkResponse}, TableFailures) :
       LET event_id == event_ids_to_delete[idx]
           got == get_item(r, events, event_id)
           l == Append(log, Req("GET_ITEM", "event", event_id, "delete_event",
                                [r EXCEPT !.data = (got = "found")]))
       IN /\ Answer(r, {OkResponse})
          /\ IF delete_event_raises(r) # NoExc
             THEN Exit(1, l, delete_event_raises(r)) /\ UNCHANGED <<idx, deleterVars>>
             ELSE IF got = "found"
             THEN Goto("delete_item", l) /\ UNCHANGED <<idx, deleterVars>>
             ELSE DeleterCounts(FALSE, l)
  /\ UNCHANGED <<storeVars, confirm>>
  /\ DeleterFrame

\* delete_event: delete_item
DeleterDeleteItem ==
  /\ script = "delete-specific-events" /\ pc = "delete_item"
  /\ \E r \in Responses({OkResponse}, TableFailures) :
       LET event_id == event_ids_to_delete[idx]
           l == Append(log, Req("DELETE_ITEM", "event", event_id, "delete_event", r))
       IN /\ Answer(r, {OkResponse})
          /\ StoreDelete("event", event_id, r)
          /\ IF delete_event_raises(r) # NoExc
             THEN Exit(1, l, delete_event_raises(r)) /\ UNCHANGED <<idx, deleterVars>>
             ELSE DeleterCounts(r.exc = NoExc, l)
  /\ UNCHANGED confirm
  /\ DeleterFrame

Deleter ==
  \/ StartDeleter
  \/ DeleterListEvents
  \/ DeleterConfirm
  \/ DeleterGetItem
  \/ DeleterDeleteItem

(***************************************************************************)
(* The operator at the terminal of a running script: Ctrl-C at any         *)
(* statement, and an input() that raises EOFError at a prompt.             *)
(***************************************************************************)
\* a main without a try block
main_catches_nothing(name) == FALSE

\* whether the script's main wraps the run in `try ... except
\* KeyboardInterrupt ... except Exception`, both with sys.exit(1)
main_catches(name) == name \in {"delete-all", "populate-dev-data"}

\* the exit status of the interpreter when the exception e leaves main: 1
\* after the traceback, or, for KeyboardInterrupt, that of the signal
UncaughtStatus(e) == IF e = "KeyboardInterrupt" THEN {1, 130} ELSE {1}

\* the exception e is raised in the running statement
Raise(e) ==
  /\ IF main_catches(script) THEN Finish(1, log, e)
     ELSE \E status \in UncaughtStatus(e) : Finish(status, log, e)
  /\ UNCHANGED <<storeVars, failures, cleanerVars, loopVars, populatorVars>>

Interrupt ==
  /\ script \in {"delete-all", "delete-specific-events"}
  /\ pc \notin {"idle", "done"}
  /\ Raise("KeyboardInterrupt")

PromptRaises ==
  /\ \/ script = "delete-all" /\ pc = "main"
     \/ script = "delete-specific-events" /\ pc = "confirm"
  /\ Raise("EOFError")

Operator == Interrupt \/ PromptRaises

(***************************************************************************)
(* app.py, app/__init__.py, app/routes.py: the Flask application.          *)
(***************************************************************************)
\* the names the modules of the application import from typing, and the
\* names among them that typing defines: it defines no name str
typing_imports == [app_py |-> {"NoReturn"}, init_py |-> {"Optional"},
                   routes_py |-> {"str"}]
typing_names == {"NoReturn", "Optional", "Dict", "List", "Tuple"}

\* `from typing import ...`: ImportError when typing lacks a name
import_from_typing(wanted) ==
  IF wanted \subseteq typing_names THEN NoExc ELSE "ImportError"

\* routes.py: the rules of the blueprint main
main_routes == {"/", "/health"}

\* health_check
health_check == [status |-> "healthy", message |-> "Scheduler app is running"]

\* the paths a client may ask for
Paths == {"/", "/health", "/venues", "/health/"}

\* the answer to a request for path: of the view registered for it, 404 when
\* the URL map has no rule for it, none when no process listens
dispatch_request(path) ==
  IF app # "serving" THEN [path |-> path, status |-> 0, body |-> "connection refused"]
  ELSE IF path \notin url_map THEN [path |-> path, status |-> 404, body |-> "Not Found"]
  ELSE IF path = "/health" THEN [path |-> path, status |-> 200, body |-> health_check]
  ELSE [path |-> path, status |-> 200, body |-> "index.html"]

\* app.py: `from app import create_app`, `app = create_app()`, app.run(...);
\* create_app imports app.routes, whose imports run first
AppStart ==
  /\ app = "not started"
  /\ LET e == IF import_from_typing(typing_imports.app_py) # NoExc
              THEN import_from_typing(typing_imports.app_py)
              ELSE IF import_from_typing(typing_imports.init_py) # NoExc
              THEN import_from_typing(typing_imports.init_py)
              ELSE import_from_typing(typing_imports.routes_py)
     IN /\ app_error' = e
        /\ app' = IF e = NoExc THEN "serving" ELSE "failed"
        /\ url_map' = IF e = NoExc THEN main_routes ELSE {}
  /\ UNCHANGED <<served, scriptVars, dateVars, tableVars, listerVars>>

\* a client's request
AppRequest ==
  /\ Len(served) < MaxRequests
  /\ \E path \in Paths : served' = Append(served, dispatch_request(path))
  /\ UNCHANGED <<app, url_map, app_error, scriptVars, dateVars, tableVars,
                 listerVars>>

NextApp == AppStart \/ AppRequest

(***************************************************************************)
(* populate_data's dynamic dates: datetime.date and dateutil's              *)
(* relativedelta on the proleptic Gregorian calendar.                      *)
(***************************************************************************)
IsLeap(y) == (y % 4 = 0 /\ y % 100 # 0) \/ y % 400 = 0

DaysInMonth(y, m) ==
  IF m = 2 THEN (IF IsLeap(y) THEN 29 ELSE 28)
  ELSE IF m \in {4, 6, 9, 11} THEN 30 ELSE 31

RECURSIVE DaysBeforeMonth(_, _)
DaysBeforeMonth(y, m) ==
  IF m = 1 THEN 0 ELSE DaysBeforeMonth(y, m - 1) + DaysInMonth(y, m - 1)

\* date.toordinal(): day 1 is 0001-01-01
toordinal(d) ==
  LET y == d.year - 1
  IN y * 365 + (y \div 4) - (y \div 100) + (y \div 400)
       + DaysBeforeMonth(d.year, d.month) + d.day

\* date.weekday(): Monday is 0, Tuesday is 1
weekday(d) == (toordinal(d) + 6) % 7

\* d + relativedelta(days=n), n >= 0
RECURSIVE add_days(_, _)
add_days(d, n) ==
  IF d.day + n <= DaysInMonth(d.year, d.month)
  THEN [d EXCEPT !.day = d.day + n]
  ELSE add_days([year |-> IF d.month = 12 THEN d.year + 1 ELSE d.year,
                 month |-> IF d.month = 12 THEN 1 ELSE d.month + 1,
                 day |-> 1],
                n - (DaysInMonth(d.year, d.month) - d.day + 1))

\* d + relativedelta(months=1, day=1): the month is advanced, then the day set
first_of_next_month(d) ==
  [year |-> IF d.month = 12 THEN d.year + 1 ELSE d.year,
   month |-> IF d.month = 12 THEN 1 ELSE d.month + 1,
   day |-> 1]

\* the days from a day of weekday wd to the Monday on or after it
days_to_monday(wd) == (0 - wd) % 7

\* `(1 - next_month.weekday()) % 7`: the days to the Tuesday on or after
days_to_tuesday(wd) == (1 - wd) % 7

\* date.today()
Dates ==
  {[year |-> y, month |-> m, day |-> d] :
     y \in MinYear..MaxYear, m \in 1..12, d \in 1..31}

\* populate_data: `# Calculate dynamic dates`
ComputeDates ==
  /\ today # NoDate /\ next_month = NoDate
  /\ LET nm == first_of_next_month(today)
         ft == add_days(nm, days_to_tuesday(weekday(nm)))
     IN /\ next_month' = nm
        /\ first_tuesday' = ft
        /\ future_next_month_2nd_tuesday' = add_days(ft, 7 * 1)
        /\ future_next_month_4th_tuesday' = add_days(ft, 7 * 3)
  /\ UNCHANGED <<today, appVars, scriptVars, tableVars, listerVars>>

NextDates == ComputeDates

(***************************************************************************)
(* list-venues.py: DataLister.  It scans the tables themselves.  A table   *)
(* is the sequence of pages its scan comes in; the LastEvaluatedKey of a   *)
(* page is the number of the page, and a scan that is given it as its      *)
(* ExclusiveStartKey answers with the page after.                          *)
(***************************************************************************)
\* no LastEvaluatedKey in the response, no ExclusiveStartKey in the call
NoKey == 0
\* an item without the attribute createdAt, or userId
NoStamp == 0
NoUserId == 0

RECURSIVE Flatten(_)
Flatten(ps) == IF ps = <<>> THEN <<>> ELSE Head(ps) \o Flatten(Tail(ps))

\* table.scan(..., ExclusiveStartKey=start)
scan_table(table, start) ==
  [Items |-> table[start + 1],
   LastEvaluatedKey |-> IF start + 1 < Len(table) THEN start + 1 ELSE NoKey]

\* the table a scan of DataLister reads
TableOf(entity) == IF entity = "user" THEN user_pages ELSE pages

\* a scan that starts over at every call
first_key(last_response) == NoKey

\* `ExclusiveStartKey=response["LastEvaluatedKey"]`
exclusive_start_key(last_response) == last_response.LastEvaluatedKey

\* get_all_users: `users_dict[user["userId"]] = user` for the users that
\* have a userId, a later user replacing an earlier one
users_dict(list) ==
  LET ids == {list[i].userId : i \in DOMAIN list} \ {NoUserId}
  IN [u \in ids |->
        list[CHOOSE i \in DOMAIN list :
               /\ list[i].userId = u
               /\ \A j \in DOMAIN list : list[j].userId = u => j <= i]]

\* `key=lambda x: x.get("createdAt", "")`: the empty string sorts before
\* every timestamp
created_at_key(x) == x.createdAt

\* list.sort(key=..., reverse=False): stable, oldest first
RECURSIVE sort_oldest_first(_)
sort_oldest_first(list) ==
  IF list = <<>> THEN <<>>
  ELSE LET n == Len(list)
           x == list[n]
           sorted == sort_oldest_first(SubSeq(list, 1, n - 1))
           before == SelectSeq(sorted, LAMBDA y : created_at_key(y) <= created_at_key(x))
           after == SelectSeq(sorted, LAMBDA y : created_at_key(y) > created_at_key(x))
       IN before \o <<x>> \o after

\* list.sort(key=..., reverse=True): stable, the elements of equal key stay
\* in their order
RECURSIVE sort_newest_first(_)
sort_newest_first(list) ==
  IF list = <<>> THEN <<>>
  ELSE LET n == Len(list)
           x == list[n]
           sorted == sort_newest_first(SubSeq(list, 1, n - 1))
           before == SelectSeq(sorted, LAMBDA y : created_at_key(y) >= created_at_key(x))
           after == SelectSeq(sorted, LAMBDA y : created_at_key(y) < created_at_key(x))
       IN before \o <<x>> \o after

\* DataLister touches its tables' scans and nothing else
ListerFrame ==
  UNCHANGED <<appVars, dateVars, tableVars, storeVars, procVars, cleanerVars,
              loopVars, populatorVars, toolVars>>

\* one scan call: the table, the ExclusiveStartKey passed, the exception raised
\* or the LastEvaluatedKey returned
Scan(entity, start, r) ==
  [table |-> entity, start |-> start, exc |-> r.exc,
   last |-> IF r.exc = NoExc THEN scan_table(TableOf(entity), start).LastEvaluatedKey
            ELSE NoKey]

\* main: list_venues_with_creators, list_events_with_creators
ListerStart ==
  /\ lister_pc = "idle"
  /\ \E entity \in {"venue", "event"} : scanning' = entity
  /\ lister_pc' = "test_connection"
  /\ UNCHANGED <<scan_response, fetched, scan_log, items, users, report, failures>>
  /\ ListerFrame

\* test_connection, and the return when it fails
ListerTestConnection ==
  /\ lister_pc = "test_connection"
  /\ \E r \in Responses({OkResponse}, TableFailures) :
       /\ Answer(r, {OkResponse})
       /\ lister_pc' = IF r.exc = NoExc THEN "scan" ELSE "done"
  /\ UNCHANGED <<scanning, scan_response, fetched, scan_log, items, users, report>>
  /\ ListerFrame

\* get_all_venues, get_all_events or get_all_users returns result to
\* list_..._with_creators
ListerReturns(result) ==
  IF scanning = "user"
  THEN /\ users' = users_dict(result)
       /\ lister_pc' = "report"
       /\ UNCHANGED <<scanning, items>>
  ELSE /\ items' = result
       /\ users' = users
       /\ IF result = <<>>
          THEN lister_pc' = "done" /\ scanning' = scanning
          ELSE lister_pc' = "scan" /\ scanning' = "user"

\* an except clause that returns the pages fetched before the exception
partial_result(fetched_so_far) == fetched_so_far

\* the except clauses of get_all_...: `return []`, or `return {}`, which
\* users_dict gives for the empty list
scan_failed_result(fetched_so_far) == <<>>

\* get_all_...: the first scan
ListerScan ==
  /\ lister_pc = "scan"
  /\ \E r \in Responses({OkResponse}, TableFailures) :
       /\ Answer(r, {OkResponse})
       /\ scan_log' = Append(scan_log, Scan(scanning, NoKey, r))
       /\ IF r.exc # NoExc
          THEN /\ ListerReturns(<<>>)
               /\ UNCHANGED <<scan_response, fetched>>
          ELSE /\ scan_response' = scan_table(TableOf(scanning), NoKey)
               /\ fetched' = scan_table(TableOf(scanning), NoKey).Items
               /\ lister_pc' = "scan_more"
               /\ UNCHANGED <<scanning, items, users>>
  /\ UNCHANGED report
  /\ ListerFrame

\* get_all_...: one iteration of `while "LastEvaluatedKey" in response`
ListerScanMore ==
  /\ lister_pc = "scan_more"
  /\ scan_response.LastEvaluatedKey # NoKey
  /\ \E r \in Responses({OkResponse}, TableFailures) :
       LET start == exclusive_start_key(scan_response)
       IN /\ Answer(r, {OkResponse})
          /\ scan_log' = Append(scan_log, Scan(scanning, start, r))
          /\ IF r.exc # NoExc
             THEN /\ ListerReturns(scan_failed_result(fetched))
                  /\ UNCHANGED <<scan_response, fetched>>
             ELSE /\ scan_response' = scan_table(TableOf(scanning), start)
                  /\ fetched' = fetched \o scan_table(TableOf(scanning), start).Items
                  /\ UNCHANGED <<lister_pc, scanning, items, users>>
  /\ UNCHANGED report
  /\ ListerFrame

\* get_all_...: the response has no LastEvaluatedKey, `return venues`
ListerScanDone ==
  /\ lister_pc = "scan_more"
  /\ scan_response.LastEvaluatedKey = NoKey
  /\ ListerReturns(fetched)
  /\ UNCHANGED <<scan_response, fetched, scan_log, report, failures>>
  /\ ListerFrame

\* list_..._with_creators: the sort, and the records it prints
ListerReport ==
  /\ lister_pc = "report"
  /\ items' = sort_newest_first(items)
  /\ report' = sort_newest_first(items)
  /\ lister_pc' = "done"
  /\ UNCHANGED <<scanning, scan_response, fetched, scan_log, users, failures>>
  /\ ListerFrame

Lister ==
  \/ ListerStart
  \/ ListerTestConnection
  \/ ListerScan
  \/ ListerScanMore
  \/ ListerScanDone
  \/ ListerReport

\* delete-specific-events.py, EventDeleter.list_events on a paged table: one
\* scan, whose Items are printed; every Exception is caught and printed
ListEvents ==
  /\ lister_pc = "idle"
  /\ \E r \in Responses({OkResponse}, TableFailures) :
       /\ Answer(r, {OkResponse})
       /\ scan_log' = Append(scan_log, Scan("event", NoKey, r))
       /\ IF r.exc # NoExc
          THEN UNCHANGED <<scan_response, report>>
          ELSE /\ scan_response' = scan_table(pages, NoKey)
               /\ report' = scan_table(pages, NoKey).Items
  /\ scanning' = "event"
  /\ lister_pc' = "done"
  /\ UNCHANGED <<fetched, items, users>>
  /\ ListerFrame

\* DataLister before main calls it
InitLister ==
  /\ lister_pc = "idle"
  /\ scanning = "none"
  /\ scan_response = [Items |-> <<>>, LastEvaluatedKey |-> NoKey]
  /\ fetched = <<>>
  /\ scan_log = <<>>
  /\ items = <<>>
  /\ users = <<>>
  /\ report = <<>>

\* the tables are not looked at
InitNoTables == pages = <<>> /\ user_pages = <<>>

\* the n items of a table, in the k pages that cut gives
Paged(records, k, cut) ==
  [p \in 1..k |->
     LET mine == {i \in DOMAIN records : cut[i] = p}
     IN [j \in 1..Cardinality(mine) |->
           records[CHOOSE i \in mine :
                     Cardinality({h \in mine : h <= i}) = j]]]

Cuts(n, k) == {cut \in [1..n -> 1..k] : \A i \in 1..(n - 1) : cut[i] <= cut[i + 1]}

\* a table of at most MaxItems venues or events in one to MaxPages pages, a
\* page may be empty; an item may lack createdAt.  A users table of at most
\* MaxItems profiles, whose userId are distinct where they have one.
InitTables ==
  /\ \E n \in 0..MaxItems, k \in 1..MaxPages :
       \E stamps \in [1..n -> {NoStamp} \cup (1..MaxStamp)], cut \in Cuts(n, k) :
         pages = Paged([i \in 1..n |-> [id |-> i, createdAt |-> stamps[i]]], k, cut)
  /\ \E n \in 0..MaxItems, k \in 1..MaxUserPages :
       \E ids \in [1..n -> {NoUserId} \cup (1..n)], cut \in Cuts(n, k) :
         /\ \A i, j \in 1..n : (i # j /\ ids[i] = ids[j]) => ids[i] = NoUserId
         /\ user_pages = Paged([i \in 1..n |-> [id |-> i, userId |-> ids[i]]], k, cut)

(***************************************************************************)
(* The store before the first run: at most MaxInitVenues venues, each      *)
(* named as a catalog venue or otherwise, each with as many rooms as       *)
(* events, at most MaxInitDeps of each.  Two venues may bear one name:     *)
(* the server does not keep names unique, and a seed run whose venue       *)
(* delete fails leaves the old venue beside the new one.                   *)
(***************************************************************************)
InitNames == Range(venues_data) \cup {OTHER_VENUE}

InitStore ==
  \E n \in 0..MaxInitVenues :
    \E names \in [1..n -> InitNames], deps \in [1..n -> 0..MaxInitDeps] :
      LET ro == Owners(deps, 1, n)
          eo == Owners(deps, 1, n)
      IN /\ venues = [i \in 1..n |-> [id |-> i, venueName |-> names[i]]]
         /\ rooms = [k \in 1..Len(ro) |->
                       [id |-> n + k, venueId |-> ro[k], name |-> "Existing Room"]]
         /\ events = [k \in 1..Len(eo) |->
                        [id |-> n + Len(ro) + k, venueId |-> eo[k],
                         name |-> "Existing Event"]]
         /\ nextId = n + Len(ro) + Len(eo) + 1

InitProc ==
  /\ script = "none"
  /\ pc = "idle"
  /\ exit_status = -1
  /\ runs = 0
  /\ log = <<>>
  /\ history = <<>>
  /\ uncaught = NoExc
  /\ FreshLocals

\* the web application before `python app.py`
InitApp ==
  /\ app = "not started"
  /\ url_map = {}
  /\ app_error = NoExc
  /\ served = <<>>

InitNoDates ==
  /\ today = NoDate
  /\ next_month = NoDate
  /\ first_tuesday = NoDate
  /\ future_next_month_2nd_tuesday = NoDate
  /\ future_next_month_4th_tuesday = NoDate

InitOthers == InitApp /\ InitNoDates /\ InitNoTables /\ InitLister

Init == InitStore /\ InitProc /\ failures = 0 /\ InitOthers

Next == Cleaner \/ Populator

Spec == Init /\ [][Next]_vars

\* the destructive scripts, with the operator at the terminal
NextDestructive == Cleaner \/ Deleter \/ Operator

SpecDestructive == Init /\ [][NextDestructive]_vars

\* no script runs, on an empty store
InitIdle ==
  /\ venues = <<>> /\ rooms = <<>> /\ events = <<>> /\ nextId = 1
  /\ InitProc /\ failures = 0

\* today is any date of the calendar
InitDates ==
  /\ InitIdle /\ InitApp /\ InitNoTables /\ InitLister
  /\ today \in {d \in Dates : d.day <= DaysInMonth(d.year, d.month)}
  /\ next_month = NoDate
  /\ first_tuesday = NoDate
  /\ future_next_month_2nd_tuesday = NoDate
  /\ future_next_month_4th_tuesday = NoDate

\* list-venues.py on any tables
InitListing == InitIdle /\ InitApp /\ InitNoDates /\ InitLister /\ InitTables

SpecLister == InitListing /\ [][Lister]_vars

\* list_events of delete-specific-events.py on any events table
SpecListEvents == InitListing /\ [][ListEvents]_vars

\* the seed's dates, for every today
SpecDates == InitDates /\ [][NextDates]_vars

\* the web application and its clients
SpecApp == Init /\ [][NextApp]_vars

(***************************************************************************)
(* What a run did, read from its log and from the store.                   *)
(***************************************************************************)
SeedRun == script = "populate-dev-data"
CleanerRun == script = "delete-all"
Done == pc = "done"

\* the requests of the log with method m for entities of kind
Requests(l, m, kind) == {i \in DOMAIN l : l[i].m = m /\ l[i].kind = kind}
OkRequests(l, m, kind) == {i \in Requests(l, m, kind) : EntryOk(l[i])}

\* the names of the rooms, and of the events, the store holds for a venue id
RoomNamesOf(venue_id) ==
  [i \in 1..Len(SelectSeq(rooms, LAMBDA x : x.venueId = venue_id)) |->
     SelectSeq(rooms, LAMBDA x : x.venueId = venue_id)[i].name]
EventNamesOf(venue_id) ==
  [i \in 1..Len(SelectSeq(events, LAMBDA x : x.venueId = venue_id)) |->
     SelectSeq(events, LAMBDA x : x.venueId = venue_id)[i].name]

\* the catalog's rooms and events of a venue name, in catalog order
CatalogRooms(venue_name) ==
  rooms_data[CHOOSE i \in DOMAIN rooms_data : rooms_data[i].venueName = venue_name].rooms
CatalogEvents(venue_name) ==
  LET mine == SelectSeq(events_data, LAMBDA e : e.venueName = venue_name)
  IN [i \in 1..Len(mine) |-> mine[i].name]

\* the store holds the catalog venue once, with its configured rooms and events
ExactlyCatalog(venue_name) ==
  /\ VenueCount(venue_name) = 1
  /\ LET v == CHOOSE i \in DOMAIN venues : venues[i].venueName = venue_name
     IN /\ RoomNamesOf(venues[v].id) = CatalogRooms(venue_name)
        /\ EventNamesOf(venues[v].id) = CatalogEvents(venue_name)

(***************************************************************************)
(* The claims.                                                             *)
(***************************************************************************)
\* C1: of two populate_data runs in succession in which every request
\* succeeds, the second leaves the store with the numbers of venues, rooms
\* and events the first left.
C1_SecondRunSameCounts ==
  \A i \in 1..(Len(history) - 1) :
    LET a == history[i]
        b == history[i + 1]
    IN (/\ a.script = "populate-dev-data" /\ a.ok /\ a.exit = 0
        /\ b.script = "populate-dev-data" /\ b.ok /\ b.exit = 0)
       => (a.venues = b.venues /\ a.rooms = b.rooms /\ a.events = b.events)

\* C2: after a populate_data run in which every request succeeds the store
\* holds each catalog venue exactly once, with its configured rooms and events.
C2_ExactlyOneOfEach ==
  (Done /\ SeedRun /\ exit_status = 0 /\ AllOk(log))
    => \A n \in Range(venues_data) : ExactlyCatalog(n)

\* the position of an entity kind in the order the claims name
Rank(kind) == CASE kind = "event" -> 1 [] kind = "room" -> 2 [] kind = "venue" -> 3

EntityKinds == {"venue", "room", "event", "event-room"}

\* the entries a step added to the log
Added(l, l2) == {i \in DOMAIN l2 : i > Len(l)}

\* C3: in a cleanup_all_data run every event delete request comes before any
\* room delete request, and every room delete request before any venue delete
\* request.
C3_EventsRoomsVenues ==
  CleanerRun =>
    \A i, j \in DOMAIN log :
      (i < j /\ log[i].m = "DELETE" /\ log[j].m = "DELETE")
        => Rank(log[i].kind) <= Rank(log[j].kind)

\* a finished cleanup that issued a delete request of each of the three kinds
C3_Witness ==
  /\ CleanerRun /\ Done
  /\ \A kind \in {"event", "room", "venue"} : Requests(log, "DELETE", kind) # {}

\* C4: when cleanup_all_data or cleanup_venue_data issues the delete request of
\* a venue, the store holds no room and no event whose venueId is that venue,
\* whatever the requests before it were answered.
C4_NoDependentsAtVenueDelete ==
  [][\A i \in Added(log, log') :
       (log'[i].m = "DELETE" /\ log'[i].kind = "venue")
         => /\ \A k \in DOMAIN rooms : rooms[k].venueId # log'[i].id
            /\ \A k \in DOMAIN events : events[k].venueId # log'[i].id]_vars

\* check_server returned False: the cleaner's probe was not answered 200; the
\* seed's root probe was answered by another status than 200, or it raised
\* and the probe of /venues raised or was answered neither 200 nor 401
CheckServerFalse(l) ==
  \E i \in DOMAIN l :
    /\ l[i].by = "check_server"
    /\ IF CleanerRun THEN ~(l[i].exc = NoExc /\ l[i].status = 200)
       ELSE \/ l[i].kind = "root" /\ l[i].exc = NoExc /\ l[i].status # 200
            \/ l[i].kind = "venue" /\ (l[i].exc # NoExc \/ l[i].status \notin {200, 401})

LoggedInBefore(l, j) ==
  \E i \in DOMAIN l :
    i < j /\ l[i].kind = "auth/login" /\ l[i].exc = NoExc /\ l[i].status = 200 /\ l[i].data

\* C6 as stated: populate_data issues a venue, room, event or event-room request
\* only after a login answered 200 with a session token.
C6_EntityRequestsAfterLogin ==
  SeedRun =>
    \A j \in DOMAIN log : log[j].kind \in EntityKinds => LoggedInBefore(log, j)

\* C6, amended: apart from check_server's probe of /venues, populate_data issues
\* a venue, room, event or event-room request only after a login answered 200
\* with a session token; a login answered otherwise, and a signup or login that
\* raised, end the process with exit status 1 at once; a signup answered by any
\* status is followed by the login.
C6_EntityRequestsAfterLoginButProbe ==
  SeedRun =>
    /\ \A j \in DOMAIN log :
         (log[j].kind \in EntityKinds /\ log[j].by # "check_server")
           => LoggedInBefore(log, j)
    /\ \A i \in DOMAIN log :
         (log[i].by = "authenticate" /\ ~LoggedInBefore(log, i + 1)
            /\ (log[i].kind = "auth/login" \/ log[i].exc # NoExc))
           => (Done /\ exit_status = 1 /\ i = Len(log))
    /\ (log # <<>> /\ log[Len(log)].kind = "auth/signup" /\ log[Len(log)].exc = NoExc)
         => pc = "login"

\* the signup was answered by an error status, and the run went on to create
\* a venue
C6_Witness ==
  /\ SeedRun
  /\ \E i \in DOMAIN log : log[i].kind = "auth/signup" /\ EntryFailed(log[i])
  /\ Requests(log, "POST", "venue") # {}

\* C7: after a cleanup_all_data run that completed with every request
\* succeeding the store holds no event, no room and no venue.
C7_CleanupEmptiesStore ==
  (CleanerRun /\ Done /\ message # "" /\ AllOk(log))
    => (venues = <<>> /\ rooms = <<>> /\ events = <<>>)

\* such a run, which deleted entities of all three kinds
C7_Witness ==
  /\ CleanerRun /\ Done /\ message # "" /\ AllOk(log)
  /\ \A kind \in {"event", "room", "venue"} : OkRequests(log, "DELETE", kind) # {}

\* the names of the POST requests of a kind whose body names venue_id, in order
PostedNames(l, kind, venue_id) ==
  LET mine == SelectSeq(l, LAMBDA e : e.m = "POST" /\ e.kind = kind
                                      /\ e.venueId = venue_id)
  IN [i \in 1..Len(mine) |-> mine[i].name]

\* the id a successful venue create request of the log returned for the name
CreatedId(l, venue_name) ==
  LET hits == {i \in OkRequests(l, "POST", "venue") : l[i].name = venue_name}
  IN IF hits = {} THEN NoId ELSE l[CHOOSE i \in hits : TRUE].id

\* C8: once authenticated, a populate_data run is not aborted by a failed
\* request: it ends with its summary, having issued one create request for
\* every catalog venue, the create requests of all rooms and events of the
\* venues it created and none for the others, and it reports the numbers of
\* successful venue, room and event create requests.
C8_BestEffort ==
  (SeedRun /\ session_token) =>
    /\ uncaught = NoExc
    /\ Done =>
         /\ exit_status = 0
         /\ [i \in 1..Len(PostedNames(log, "venue", NoId)) |->
               PostedNames(log, "venue", NoId)[i]] = venues_data
         /\ \A n \in Range(venues_data) :
              IF CreatedId(log, n) # NoId
              THEN /\ PostedNames(log, "room", CreatedId(log, n)) = CatalogRooms(n)
                   /\ PostedNames(log, "event", CreatedId(log, n)) = CatalogEvents(n)
              ELSE TRUE
         /\ \A i \in Requests(log, "POST", "room") \cup Requests(log, "POST", "event") :
              \E n \in Range(venues_data) :
                CreatedId(log, n) # NoId /\ log[i].venueId = CreatedId(log, n)
         /\ reported = << Cardinality(OkRequests(log, "POST", "venue")),
                          Cardinality(OkRequests(log, "POST", "room")),
                          Cardinality(OkRequests(log, "POST", "event")) >>

\* a finished run in which the create of one venue failed and the other
\* venue's rooms and events were created
C8_Witness ==
  /\ SeedRun /\ Done /\ exit_status = 0
  /\ \E i \in Requests(log, "POST", "venue") : ~EntryOk(log[i])
  /\ OkRequests(log, "POST", "room") # {}
  /\ OkRequests(log, "POST", "event") # {}

\* the ids of the delete requests of a kind, in order
DeletedIds(l, kind) ==
  LET mine == SelectSeq(l, LAMBDA e : e.m = "DELETE" /\ e.kind = kind)
  IN [i \in 1..Len(mine) |-> mine[i].id]

\* C9: delete_all_entities issues one delete request for each listed entity,
\* in order, whatever the earlier ones were answered, and returns the number
\* of them that succeeded; cleanup_all_data's total is the sum of the counts
\* returned so far.
C9_DeleteCounts ==
  CleanerRun =>
    /\ pc = "delete_loop" =>
         /\ idx <= Len(entities) + 1
         /\ DeletedIds(log, CleanupOrder[phase]) = [i \in 1..(idx - 1) |-> entities[i].id]
    /\ \A k \in DOMAIN returned :
         /\ returned[k] = Cardinality(OkRequests(log, "DELETE", CleanupOrder[k]))
         /\ returned[k] <= Cardinality(Requests(log, "DELETE", CleanupOrder[k]))
    /\ total_deleted = SumSeq(returned)

\* a finished cleanup in which a delete request failed and a later delete
\* request of the same kind was issued
C9_Witness ==
  /\ CleanerRun /\ Done /\ Len(returned) = Len(CleanupOrder)
  /\ \E i, j \in DOMAIN log :
       /\ i < j
       /\ log[i].m = "DELETE" /\ log[j].m = "DELETE" /\ log[i].kind = log[j].kind
       /\ EntryFailed(log[i])

\* a request of an Entity API Client method that failed
FailedClientCall(e) ==
  /\ EntryFailed(e)
  /\ e.kind \in EntityKinds
  /\ e.by # "check_server"

\* C10: a list, delete, create or assign request that meets a transport failure
\* or an error status raises nothing to its caller and yields the failure
\* value: the step leaves the created ids and the tallies as they were, a
\* failed listing is the empty list and a failed lookup finds no venue.
C10_FailuresBecomeValues ==
  [][\A i \in Added(log, log') :
       FailedClientCall(log'[i]) =>
         /\ uncaught' = NoExc
         /\ pc' # "done"
         /\ created_venues' = created_venues
         /\ created_rooms' = created_rooms
         /\ created_events' = created_events
         /\ deleted_count' = deleted_count
         /\ total_deleted' = total_deleted
         /\ (log'[i].m = "GET" /\ log'[i].by # "find_venue_by_name") => entities' = <<>>
         /\ log'[i].by = "find_venue_by_name" => existing_venue' = NoId]_vars

\* a run that went on after a failed request of a client method, to its end
C10_Witness ==
  /\ Done /\ exit_status = 0 /\ uncaught = NoExc
  /\ \E i \in DOMAIN log : FailedClientCall(log[i])

\* C16 as stated: in cleanup_all_data and in cleanup_venue_data every delete
\* request is followed by a pause before the next request is issued.
C16_PauseAfterEveryDelete ==
  \A i \in DOMAIN log :
    (log[i].m = "DELETE" /\ i < Len(log)) => log[i + 1].m = "SLEEP"

\* C16, amended: in cleanup_all_data a delete request is followed by a pause
\* when it succeeded and by none when it failed; in cleanup_venue_data the
\* delete request of the venue is followed by one pause, whatever its outcome,
\* and the delete requests of its events and rooms by none; there is no pause
\* but after a delete request.
C16_PauseAfterSomeDeletes ==
  /\ \A i \in DOMAIN log :
       log[i].m = "DELETE" =>
         LET paused == i < Len(log) /\ log[i + 1].m = "SLEEP"
         IN IF CleanerRun THEN paused <=> ~EntryFailed(log[i])
            ELSE paused <=> log[i].kind = "venue"
  /\ \A i \in DOMAIN log :
       log[i].m = "SLEEP" => (i > 1 /\ log[i - 1].m = "DELETE")

\* a cleanup in which a failed delete request was followed at once by another
\* delete request, and a successful one by a pause
C16_Witness ==
  /\ CleanerRun
  /\ \E i \in DOMAIN log :
       /\ log[i].m = "DELETE" /\ EntryFailed(log[i])
       /\ i < Len(log) /\ log[i + 1].m = "DELETE"
  /\ \E i \in DOMAIN log :
       /\ log[i].m = "DELETE" /\ ~EntryFailed(log[i])
       /\ i < Len(log) /\ log[i + 1].m = "SLEEP"

\* the index of the last listing find_venue_by_name issued, 0 if none
LastFind(l) ==
  LET finds == {i \in DOMAIN l : l[i].by = "find_venue_by_name"}
  IN IF finds = {} THEN 0 ELSE CHOOSE i \in finds : \A j \in finds : j <= i

\* the records of a table that name another venue than venue_id
OfOthers(table, venue_id) == {e \in Range(table) : e.venueId # venue_id}

\* C18: cleanup_venue_data deletes only events and rooms whose venueId is the
\* venue found, events before rooms before the venue itself, once; the venue
\* is created again only after its delete request; the venues, rooms and
\* events of other venues are left as they were.
C18_CleanupOnlyOfVenue ==
  [][\A i \in Added(log, log') :
       LET e == log'[i]
       IN /\ (e.m = "DELETE" /\ e.by = "cleanup_venue_data") =>
               /\ existing_venue # NoId
               /\ e.kind = "event" =>
                    \E k \in DOMAIN events :
                      events[k].id = e.id /\ events[k].venueId = existing_venue
               /\ e.kind = "room" =>
                    \E k \in DOMAIN rooms :
                      rooms[k].id = e.id /\ rooms[k].venueId = existing_venue
               /\ e.kind = "venue" => e.id = existing_venue
               /\ \A j \in (LastFind(log) + 1)..(i - 1) :
                    log'[j].m = "DELETE" =>
                      /\ log'[j].kind # "venue"
                      /\ Rank(log'[j].kind) <= Rank(e.kind)
               /\ OfOthers(rooms', existing_venue) = OfOthers(rooms, existing_venue)
               /\ OfOthers(events', existing_venue) = OfOthers(events, existing_venue)
               /\ {v \in Range(venues') : v.id # existing_venue}
                    = {v \in Range(venues) : v.id # existing_venue}
          /\ (e.m = "POST" /\ e.kind = "venue") =>
               /\ e.name = venues_data[venue_index]
               /\ IF existing_venue = NoId
                  THEN log'[i - 1].by = "find_venue_by_name"
                  ELSE /\ log'[i - 1].m = "SLEEP"
                       /\ log'[i - 2].m = "DELETE" /\ log'[i - 2].kind = "venue"
                       /\ log'[i - 2].id = existing_venue]_vars

\* a seed run that deleted an event, a room and the venue found and created
\* the venue again, while a room of another venue is in the store
C18_Witness ==
  /\ SeedRun
  /\ \A kind \in {"event", "room", "venue"} : OkRequests(log, "DELETE", kind) # {}
  /\ \E i \in OkRequests(log, "POST", "venue") :
       /\ i > 2 /\ log[i - 2].m = "DELETE"
       /\ OfOthers(rooms, log[i].id) # {}
       /\ \E k \in DOMAIN venues : venues[k].venueName = OTHER_VENUE

\* C19: every room and event create request of populate_data carries the
\* venueId that a successful create request of its own catalog venue returned
\* earlier in the run, so none is issued for a venue whose creation failed.
C19_CreatesNameCreatedVenue ==
  SeedRun =>
    \A j \in Requests(log, "POST", "room") \cup Requests(log, "POST", "event") :
      \E i \in OkRequests(log, "POST", "venue") :
        /\ i < j
        /\ log[i].id # NoId
        /\ log[j].venueId = log[i].id
        /\ log[j].name \in Range(IF log[j].kind = "room"
                                 THEN CatalogRooms(log[i].name)
                                 ELSE CatalogEvents(log[i].name))

\* a finished run in which the create of the first catalog venue failed and
\* rooms and events of the second were requested
C19_Witness ==
  /\ SeedRun /\ Done
  /\ CreatedId(log, venues_data[1]) = NoId
  /\ \E j \in Requests(log, "POST", "room") : log[j].venueId = CreatedId(log, venues_data[2])
  /\ \E j \in Requests(log, "POST", "event") : log[j].venueId = CreatedId(log, venues_data[2])

\* the ids of the successful create requests of a kind for the venue named
CreatedOf(l, kind, venue_name) ==
  {l[i].id : i \in {j \in OkRequests(l, "POST", kind) :
                      /\ CreatedId(l, venue_name) # NoId
                      /\ l[j].venueId = CreatedId(l, venue_name)}}

Assignments(l) == Requests(l, "POST", "event-room")

\* C20: every room assignment request pairs a created Monkey Puzzle event with
\* a created Monkey Puzzle room, no pair is requested twice, and a finished
\* run has requested every such pair, whatever the assignments before were
\* answered; no DoubleTree event and no DoubleTree room is in an assignment.
C20_AssignmentsAreTheProduct ==
  SeedRun =>
    LET requested == Assignments(log)
        mp_events == CreatedOf(log, "event", MONKEY_PUZZLE_VENUE)
        mp_rooms == CreatedOf(log, "room", MONKEY_PUZZLE_VENUE)
        dt_events == CreatedOf(log, "event", DOUBLE_TREE_VENUE)
        dt_rooms == CreatedOf(log, "room", DOUBLE_TREE_VENUE)
        pairs == {<<log[i].event, log[i].id>> : i \in requested}
    IN /\ requested # {} =>
            /\ \A i \in requested :
                 /\ log[i].event \in mp_events /\ log[i].id \in mp_rooms
                 /\ log[i].event \notin dt_events /\ log[i].id \notin dt_rooms
            /\ Cardinality(pairs) = Cardinality(requested)
       /\ (Done /\ exit_status = 0) =>
            /\ pairs = mp_events \X mp_rooms
            /\ Cardinality(requested) = Cardinality(mp_events) * Cardinality(mp_rooms)

\* a finished run with a failed assignment that was followed by another, and
\* with created DoubleTree events
C20_Witness ==
  /\ SeedRun /\ Done /\ exit_status = 0
  /\ \E i, j \in Assignments(log) : i < j /\ EntryFailed(log[i])
  /\ CreatedOf(log, "event", DOUBLE_TREE_VENUE) # {}

\* the delete operations of a log: DELETE requests and delete_item calls
Deletions(l) == {i \in DOMAIN l : l[i].m \in {"DELETE", "DELETE_ITEM"}}

\* the answers that confirm: yes or y in any case for delete-all.py, yes in
\* any case and with blanks around it for delete-specific-events.py
Affirmative ==
  IF script = "delete-all" THEN response \in {"yes", "YES", "y", "Y"}
  ELSE confirm = "yes"

\* the prompt was answered, and not by a confirmation
Declined ==
  /\ IF script = "delete-all" THEN response # NoAnswer ELSE confirm # NoAnswer
  /\ ~Affirmative

\* C13: a run of delete-all.py or delete-specific-events.py has issued a
\* delete operation only if the operator confirmed at the prompt before.
C13_NoDeleteUnconfirmed ==
  (script \in {"delete-all", "delete-specific-events"} /\ Deletions(log) # {})
    => Affirmative

\* delete-specific-events.py deleted an item after the operator confirmed
C13_Witness ==
  /\ script = "delete-specific-events" /\ Affirmative
  /\ \E i \in Deletions(log) : ~EntryFailed(log[i])

\* the run was cancelled: the operator declined, or interrupted the process
Cancelled == Declined \/ uncaught = "KeyboardInterrupt"

\* an error the script does not expect: an exception that reached main, or one
\* that is neither a ClientError nor a RequestException in a table operation
UnexpectedError ==
  \/ uncaught \notin {NoExc, "KeyboardInterrupt"}
  \/ \E i \in DOMAIN log : log[i].exc = "RuntimeError"

\* C14 as stated: a run of a destructive script that was cancelled, or met an
\* unexpected error, ends with a nonzero exit status.
C14_CancelOrErrorExitsNonzero ==
  (script \in {"delete-all", "delete-specific-events"} /\ Done
     /\ (Cancelled \/ UnexpectedError))
    => exit_status # 0

\* C14, amended: a run of a destructive script ends with a nonzero exit status
\* when the operator interrupts it or an exception reaches main (status 1 in
\* delete-all.py, whose main catches both); it ends with status 0 when the
\* operator declines at the prompt, and, in delete-specific-events.py, when an
\* unexpected error is met in delete_event or list_events, which catch it.
C14_InterruptOrErrorInMainExitsNonzero ==
  (script \in {"delete-all", "delete-specific-events"} /\ Done) =>
    /\ uncaught # NoExc => exit_status # 0
    /\ (uncaught # NoExc /\ script = "delete-all") => exit_status = 1
    /\ (uncaught = NoExc /\ Declined) => exit_status = 0
    /\ (uncaught = NoExc /\ script = "delete-specific-events") => exit_status = 0

\* delete-specific-events.py ended with status 0 after an unexpected error in
\* a table operation, and an earlier run was interrupted
C14_Witness ==
  /\ script = "delete-specific-events" /\ Done /\ exit_status = 0
  /\ \E i \in DOMAIN log : log[i].exc = "RuntimeError"
  /\ \E i \in DOMAIN history : history[i].exit = 1 /\ history[i].script = "delete-all"
  /\ Len(history) = 2

\* C17: once started, the web application serves the two routes / and
\* /health and no other, and every request for /health is answered by the
\* same payload, status healthy with the message Scheduler app is running.
C17_TwoRoutesAndFixedHealth ==
  app # "not started" =>
    /\ app = "serving"
    /\ url_map = {"/", "/health"}
    /\ \A i \in DOMAIN served :
         (served[i].path = "/health" /\ served[i].status # 0) =>
           /\ served[i].status = 200
           /\ served[i].body = [status |-> "healthy",
                                message |-> "Scheduler app is running"]

\* the month after the month of d
MonthAfter(d) ==
  [year |-> IF d.month = 12 THEN d.year + 1 ELSE d.year,
   month |-> IF d.month = 12 THEN 1 ELSE d.month + 1]

\* C12: for every today, the two dates the seed computes are Tuesdays of the
\* month after today's, the first with day of month 8..14 and the second with
\* day of month 22..28, and the second is 14 days after the first.
C12_SecondAndFourthTuesday ==
  next_month # NoDate =>
    LET second == future_next_month_2nd_tuesday
        fourth == future_next_month_4th_tuesday
    IN /\ weekday(second) = 1 /\ weekday(fourth) = 1
       /\ [year |-> second.year, month |-> second.month] = MonthAfter(today)
       /\ [year |-> fourth.year, month |-> fourth.month] = MonthAfter(today)
       /\ second.day \in 8..14
       /\ fourth.day \in 22..28
       /\ toordinal(fourth) - toordinal(second) = 14

\* the dates are computed on the last day of a year: the two Tuesdays are in
\* January of the year after
C12_Witness ==
  /\ next_month # NoDate
  /\ today.month = 12 /\ today.day = 31
  /\ future_next_month_2nd_tuesday.year = today.year + 1
  /\ future_next_month_4th_tuesday.month = 1

(***************************************************************************)
(* list-venues.py: the scans and the reports                               *)
(***************************************************************************)
EntityScans == {i \in DOMAIN scan_log : scan_log[i].table # "user"}
UserScans == {i \in DOMAIN scan_log : scan_log[i].table = "user"}
NoScanFailed(S) == \A i \in S : scan_log[i].exc = NoExc
\* get_all_venues or get_all_events has returned, get_all_users has returned
EntityReturned == EntityScans # {} /\ (scanning = "user" \/ lister_pc \in {"report", "done"})
UsersReturned == UserScans # {} /\ lister_pc \in {"report", "done"}
SameRecords(a, b) == Len(a) = Len(b) /\ Range(a) = Range(b)

\* the first scan of a function passes no key, every follow-up scan passes the
\* LastEvaluatedKey of the response just before it, and there is no scan after
\* a response without one; a function that returns without an exception has
\* seen a response without a key
FollowsContinuationKeys ==
  /\ \A i \in DOMAIN scan_log :
       IF i = 1 \/ scan_log[i - 1].table # scan_log[i].table
       THEN scan_log[i].start = NoKey
       ELSE /\ scan_log[i - 1].exc = NoExc
            /\ scan_log[i - 1].last # NoKey
            /\ scan_log[i].start = scan_log[i - 1].last
  /\ (EntityReturned /\ NoScanFailed(EntityScans)) =>
       \E i \in EntityScans : scan_log[i].last = NoKey
  /\ (UsersReturned /\ NoScanFailed(UserScans)) =>
       \E i \in UserScans : scan_log[i].last = NoKey

\* get_all_venues and get_all_events return every item of every page once
EntityScanReturnsAll ==
  (EntityReturned /\ NoScanFailed(EntityScans)) =>
     SameRecords(items, Flatten(pages))

\* C11, as stated: the three functions follow the continuation keys and return
\* exactly the items of all pages, each once; for get_all_users, the values of
\* the dictionary it returns are the items of all pages of the users table.
C11_ScansReturnUnion ==
  /\ FollowsContinuationKeys
  /\ EntityScanReturnsAll
  /\ (UsersReturned /\ NoScanFailed(UserScans)) =>
       /\ Range(users) = Range(Flatten(user_pages))
       /\ Cardinality(DOMAIN users) = Len(Flatten(user_pages))

\* C11: the three functions scan first without a key, pass to each follow-up
\* scan the LastEvaluatedKey of the response just before it and stop at the
\* first response without one; unless a scan raises, get_all_venues and
\* get_all_events return every item of every page exactly once, and
\* get_all_users returns, under each userId that an item of any page carries,
\* that item, and nothing for the items without a userId.
C11_ScansReturnUnionOfKeyed ==
  /\ FollowsContinuationKeys
  /\ EntityScanReturnsAll
  /\ (UsersReturned /\ NoScanFailed(UserScans)) =>
       /\ DOMAIN users = {u.userId : u \in Range(Flatten(user_pages))} \ {NoUserId}
       /\ \A u \in DOMAIN users :
            users[u] \in Range(Flatten(user_pages)) /\ users[u].userId = u

\* both tables came in several pages with items on the first and the last, no
\* scan raised, and a profile without a userId was scanned
C11_Witness ==
  /\ lister_pc = "done"
  /\ NoScanFailed(DOMAIN scan_log)
  /\ Len(pages) = MaxPages /\ pages[1] # <<>> /\ pages[MaxPages] # <<>>
  /\ Cardinality(EntityScans) = MaxPages
  /\ Len(user_pages) = MaxUserPages /\ user_pages[MaxUserPages] # <<>>
  /\ DOMAIN users # {}
  /\ \E u \in Range(Flatten(user_pages)) : u.userId = NoUserId

\* C15: a report prints the records that were fetched, each once, in
\* non-increasing order of createdAt, and no record without a createdAt before
\* a record that has one.
C15_NewestFirst ==
  (lister_pc = "done" /\ report # <<>>) =>
     /\ SameRecords(report, Flatten(pages))
     /\ \A i, j \in DOMAIN report :
          i < j =>
            /\ report[i].createdAt >= report[j].createdAt
            /\ report[i].createdAt = NoStamp => report[j].createdAt = NoStamp

\* a report whose order is not the order of the scan, ending with a record
\* without a createdAt
C15_Witness ==
  /\ lister_pc = "done"
  /\ Len(report) = MaxItems
  /\ report # Flatten(pages)
  /\ report[Len(report)].createdAt = NoStamp
  /\ report[1].createdAt # NoStamp


(***************************************************************************)
(* populate-dev-data.py: check_server's two probes                         *)
(***************************************************************************)
\* the seed's probe of the root URL is entry i of the log, and it failed: the
\* transport raised, or the status is not 200
RootProbeFailed(i) ==
  /\ SeedRun
  /\ log[i].by = "check_server" /\ log[i].kind = "root"
  /\ (log[i].exc # NoExc \/ log[i].status # 200)

\* C21: when the seed's probe of the server root URL has failed (a transport
\* error or a status other than 200), the next request of check_server is GET
\* /venues, and the run goes on to authenticate exactly when that request is
\* answered 200 or 401; otherwise it ends there with exit status 1.
C21_FallbackToVenues ==
  \A i \in DOMAIN log :
    RootProbeFailed(i) =>
      \/ pc = "check_server_fallback" /\ Len(log) = i
      \/ /\ i + 1 \in DOMAIN log
         /\ log[i + 1].by = "check_server" /\ log[i + 1].m = "GET"
         /\ log[i + 1].kind = "venue"
         /\ IF log[i + 1].exc = NoExc /\ log[i + 1].status \in {200, 401}
            THEN ~(Done /\ Len(log) = i + 1)
            ELSE Done /\ exit_status = 1 /\ Len(log) = i + 1


(***************************************************************************)
(* delete-specific-events.py: what list_events lists                       *)
(***************************************************************************)
\* C22: when list_events has ended without an exception of its scan, it has
\* printed every event of the events table, in however many pages the store
\* answers the scan.
C22_ListsEveryEvent ==
  (lister_pc = "done" /\ scanning = "event" /\ NoScanFailed(DOMAIN scan_log)) =>
     Range(report) = Range(Flatten(pages))


(***************************************************************************)
(* delete-specific-events.py: delete_event and the counts of delete_events *)
(***************************************************************************)
DeleterRun == script = "delete-specific-events"
\* the calls of delete_event on the table
ItemCalls(m) == {i \in DOMAIN log : log[i].m = m /\ log[i].by = "delete_event"}
\* the ids delete_event was called with, in the order of the calls
ProcessedIds ==
  LET gets == SelectSeq(log, LAMBDA e : e.m = "GET_ITEM" /\ e.by = "delete_event")
  IN [i \in DOMAIN gets |-> gets[i].id]
\* the loop of delete_events is over
DeleteEventsReturned == DeleterRun /\ idx > Len(event_ids_to_delete)

\* delete_item is issued only after a get_item of the same id that did not
\* raise and found the item; successful counts the delete_item calls that
\* completed, failed the get_item calls that raised or found nothing and the
\* delete_item calls that raised; no exception of a table call ends the run;
\* the ids are processed in the order of the list, each once
DeleteEventOutcomes ==
  DeleterRun =>
    /\ \A i \in ItemCalls("DELETE_ITEM") :
         /\ i - 1 \in ItemCalls("GET_ITEM")
         /\ log[i - 1].id = log[i].id
         /\ log[i - 1].exc = NoExc /\ log[i - 1].data
    /\ successful = Cardinality({i \in ItemCalls("DELETE_ITEM") : log[i].exc = NoExc})
    /\ failed =
         Cardinality({i \in ItemCalls("GET_ITEM") : log[i].exc # NoExc \/ ~log[i].data})
         + Cardinality({i \in ItemCalls("DELETE_ITEM") : log[i].exc # NoExc})
    /\ uncaught \notin {r.exc : r \in TableFailures}
    /\ Len(ProcessedIds) <= Len(event_ids_to_delete)
    /\ \A i \in DOMAIN ProcessedIds : ProcessedIds[i] = event_ids_to_delete[i]
    /\ DeleteEventsReturned =>
         /\ ProcessedIds = event_ids_to_delete
         /\ successful + failed = Len(event_ids_to_delete)

\* C23: delete_event returns True only when get_item found the event and the
\* delete_item after it completed without error; when the event is not in the
\* table no delete_item is issued for it, and when get_item or delete_item
\* raises the call counts as failed and the run goes on, so that delete_events
\* processes every id of its list once and successful + failed is the number
\* of ids.
C23_DeleteEventReturns ==
  /\ []DeleteEventOutcomes
  /\ [][\A i \in Added(log, log') :
          log'[i].m = "DELETE_ITEM" =>
            \E k \in DOMAIN events : events[k].id = log'[i].id]_vars

\* delete_events is over with one event deleted and one call of delete_event
\* that raised
C23_Witness ==
  /\ DeleteEventsReturned
  /\ successful = 1 /\ failed = 1
  /\ \E i \in ItemCalls("GET_ITEM") \cup ItemCalls("DELETE_ITEM") : log[i].exc # NoExc


(***************************************************************************)
(* delete-all.py: the closing message of cleanup_all_data                   *)
(***************************************************************************)
\* C24: when cleanup_all_data has reported 'All development data has been
\* removed', the store holds no event, no room and no venue.
C24_RemovedMeansEmpty ==
  (CleanerRun /\ Done /\ message = "All development data has been removed")
    => (venues = <<>> /\ rooms = <<>> /\ events = <<>>)


(***************************************************************************)
(* populate-dev-data.py: the requests of the venue loop                    *)
(***************************************************************************)
\* the venue create requests of the run for the n-th catalog venue
VenueCreates(n) ==
  {i \in Requests(log, "POST", "venue") : log[i].name = venues_data[n]}
\* the venue delete requests issued while the n-th catalog venue is processed:
\* after n - 1 venue create requests
VenueDeletes(n) ==
  {i \in Requests(log, "DELETE", "venue") :
     Cardinality({j \in Requests(log, "POST", "venue") : j < i}) = n - 1}

\* one create request for every catalog venue whose iteration is over and none
\* for the others; at most one venue delete request per catalog venue, always
\* before its create request
OneCreatePerCatalogVenue ==
  SeedRun =>
    /\ \A n \in DOMAIN venues_data :
         /\ Cardinality(VenueCreates(n)) = IF venue_index > n THEN 1 ELSE 0
         /\ Cardinality(VenueDeletes(n)) <= 1
    /\ \A i \in Requests(log, "DELETE", "venue") :
         \E n \in DOMAIN venues_data : i \in VenueDeletes(n)

\* C25: in one populate_data run one venue create request is issued for each
\* catalog venue, whatever the lookup found and however the cleanup deletes
\* were answered, and at most one venue delete request, which names the first
\* venue in listing order whose venueName is the catalog name.
C25_OneCreateAtMostOneDelete ==
  /\ []OneCreatePerCatalogVenue
  /\ [][\A i \in Added(log, log') :
          (SeedRun /\ log'[i].m = "DELETE" /\ log'[i].kind = "venue") =>
            \E k \in DOMAIN venues :
              /\ venues[k].id = log'[i].id
              /\ venues[k].venueName = venues_data[venue_index]
              /\ \A h \in 1..(k - 1) : venues[h].venueName # venues_data[venue_index]]_vars

\* the venue loop is over in a run whose venue delete request failed, for a
\* catalog name that two stored venues bore
C25_Witness ==
  /\ SeedRun /\ venue_index > Len(venues_data)
  /\ \E i \in Requests(log, "DELETE", "venue") : EntryFailed(log[i])
  /\ \E n \in DOMAIN venues_data :
       /\ VenueDeletes(n) # {}
       /\ Cardinality({k \in DOMAIN venues : venues[k].venueName = venues_data[n]}) > 2


(***************************************************************************)
(* list-venues.py: a scan that raises after pages were fetched             *)
(***************************************************************************)
\* entry i of the scan log is a follow-up scan that raised: the scans of the
\* same function before it fetched pages
RaisedAfterPages(i) ==
  /\ scan_log[i].exc # NoExc
  /\ i > 1 /\ scan_log[i - 1].table = scan_log[i].table
  /\ scan_log[i].table \in {"venue", "event", "user"}

\* C26: when a follow-up scan of get_all_venues, get_all_events or
\* get_all_users has raised, the function has returned an empty collection to
\* its caller, which goes on as it does for an empty table: the report of an
\* entity scan ends with nothing printed and no scan of the users, and after a
\* users scan the entities are reported with no user known.
C26_RaisedScanReturnsEmpty ==
  \A i \in DOMAIN scan_log :
    RaisedAfterPages(i) =>
      IF scan_log[i].table = "user"
      THEN /\ DOMAIN users = {}
           /\ lister_pc \in {"report", "done"}
           /\ items # <<>>
           /\ lister_pc = "done" => SameRecords(report, items)
      ELSE /\ items = <<>>
           /\ lister_pc = "done"
           /\ report = <<>> /\ UserScans = {}

\* a follow-up scan of the venues or events raised after the scans before it
\* had fetched items, and the report has ended
C26_Witness ==
  /\ lister_pc = "done"
  /\ \E i \in EntityScans : RaisedAfterPages(i)
  /\ fetched # <<>>
  /\ items = <<>>

====
